---- MODULE Spec2Model ----
(***************************************************************************)
(* Chat-wrapper: the chat export parser (services/parser, parseChatFile)   *)
(* as a state machine.  One parseChatFile call is a FileReader read        *)
(* followed by the onload handler: the three extraction strategies, the    *)
(* chronological sort, the analysis loop over the sorted messages, and the *)
(* assembly of the ChatAnalysisResult.                                     *)
(*                                                                         *)
(* Time.  A Date is modelled by its local wall-clock minute count since    *)
(* 1970-01-01T00:00 local time, under a fixed UTC offset (no DST change in *)
(* the modelled span), so getTime() differences are minute differences     *)
(* times 60000.  The export formats carry minute resolution.               *)
(*                                                                         *)
(* Text.  Strings are opaque in TLA+, so every text of the input alphabet  *)
(* has its JavaScript facts (length, trim, lower case, regular-expression  *)
(* matches, tokens) tabulated next to the alphabet.                        *)
(***************************************************************************)
EXTENDS Integers, Sequences, FiniteSets, TLC

(***************************************************************************)
(* Bounds of the model.                                                    *)
(***************************************************************************)
\* longest message list of the exhaustively enumerated documents
MaxMsgs == 3
\* number of parseChatFile calls made on the same file
MaxCalls == 2

(***************************************************************************)
(* Program constants.                                                      *)
(***************************************************************************)
\* "> 6 hours": if (timeDiffMinutes > 360)
InitiationGapMinutes == 360
\* isValidSender: t.length > 80
MaxSenderLen == 80
\* COLORS.length
NumColors == 8
COLORS == << "#4F46E5", "#EC4899", "#10B981", "#F59E0B",
             "#6366F1", "#8B5CF6", "#EF4444", "#3B82F6" >>

MinutesPerDay == 1440
MinutesPerHour == 60

(***************************************************************************)
(* Generic helpers.                                                        *)
(***************************************************************************)
Max(a, b) == IF a >= b THEN a ELSE b
Abs(a) == IF a < 0 THEN 0 - a ELSE a

RECURSIVE SumSeq(_)
SumSeq(s) == IF s = << >> THEN 0 ELSE Head(s) + SumSeq(Tail(s))

RECURSIVE SumFun(_)
SumFun(f) ==
    IF DOMAIN f = {} THEN 0
    ELSE LET k == CHOOSE x \in DOMAIN f : TRUE
         IN f[k] + SumFun([x \in DOMAIN f \ {k} |-> f[x]])

\* Math.ceil(a / b) and Math.floor(a / b) for a >= 0, b > 0
CeilDiv(a, b) == (a + b - 1) \div b
FloorDiv(a, b) == a \div b
\* Math.round(a / b) for a >= 0, b > 0: halves round up
RoundDiv(a, b) == (2 * a + b) \div (2 * b)

\* obj[k] = (obj[k] || 0) + 1 on a record-like object with own keys only
Bump(f, k) == IF k \in DOMAIN f THEN [f EXCEPT ![k] = @ + 1] ELSE f @@ (k :> 1)

EmptyMap == [x \in {} |-> 0]

(***************************************************************************)
(* The calendar of Date: getFullYear/getMonth()+1/getDate of a local time, *)
(* and new Date("YYYY-MM-DD"), which is midnight UTC of that civil day.    *)
(***************************************************************************)
\* civil date of a day number (days since 1970-01-01), proleptic Gregorian
CivilFromDays(z0) ==
    LET z == z0 + 719468
        era == z \div 146097
        doe == z - era * 146097
        yoe == (doe - doe \div 1460 + doe \div 36524 - doe \div 146096) \div 365
        doy == doe - (365 * yoe + yoe \div 4 - yoe \div 100)
        mp == (5 * doy + 2) \div 153
        d == doy - (153 * mp + 2) \div 5 + 1
        m == IF mp < 10 THEN mp + 3 ELSE mp - 9
        y == yoe + era * 400 + (IF m <= 2 THEN 1 ELSE 0)
    IN << y, m, d >>

\* day number of a civil date
DaysFromCivil(key) ==
    LET m == key[2]
        d == key[3]
        y == key[1] - (IF m <= 2 THEN 1 ELSE 0)
        era == y \div 400
        yoe == y - era * 400
        doy == (153 * (IF m > 2 THEN m - 3 ELSE m + 9) + 2) \div 5 + d - 1
        doe == yoe * 365 + yoe \div 4 - yoe \div 100 + doy
    IN era * 146097 + doe - 719468

\* msg.timestamp.getHours()
GetHours(t) == (t % MinutesPerDay) \div MinutesPerHour
\* `${yyyy}-${mm}-${dd}` of the local date, as the triple <<yyyy, mm, dd>>
DayKey(t) == CivilFromDays(t \div MinutesPerDay)
\* `${yyyy}-${mm}`
MonthKey(t) == << DayKey(t)[1], DayKey(t)[2] >>
\* new Date(dayKey).getTime(), in minutes: midnight UTC of the civil day
DateOfKey(key) == DaysFromCivil(key) * MinutesPerDay

\* "YYYY-MM-DD" strings compare as these numbers do (four-digit years,
\* month and day zero-padded to two digits)
KeyOrdinal(key) == key[1] * 10000 + key[2] * 100 + key[3]

(***************************************************************************)
(* The input alphabet: the texts a document's nodes carry, with the facts  *)
(* JavaScript computes about them.                                         *)
(***************************************************************************)
\* querySelector found no element / textContent is undefined
Absent == "<absent>"

\* text.trim()
Trim(t) == CASE t = " Ann " -> "Ann"
             [] OTHER -> t
\* t.toLowerCase()
Lower(t) == CASE t = "Ann" -> "ann"
              [] t = "Ben" -> "ben"
              [] t = "Seen" -> "seen"
              [] t = "You sent an attachment." -> "you sent an attachment."
              [] t = "Ann sent an attachment" -> "ann sent an attachment"
              [] t = "9:05 AM" -> "9:05 am"
              [] t = "Jan 31, 2024" -> "jan 31, 2024"
              [] OTHER -> t
\* t.length, in UTF-16 code units
StrLen(t) == CASE t = "" -> 0
               [] t = "ok" -> 2
               [] t = "7" -> 1
               [] t = "42" -> 2
               [] t = "Ann" -> 3
               [] t = "Ben" -> 3
               [] t = "PM" -> 2
               [] t = "Seen" -> 4
               [] t = "hey U+1F600" -> 6
               [] t = "9:05 AM" -> 7
               [] t = "1/31/2024" -> 9
               [] t = "__proto__" -> 9
               [] t = "constructor" -> 11
               [] t = "consecutiveCount" -> 16
               [] t = "Jan 31, 2024" -> 12
               [] t = "Ann sent an attachment" -> 22
               [] t = "You sent an attachment." -> 23
               [] t = "<a name of 81 characters>" -> 81
               [] t = "hey" -> 3
               [] t = "you" -> 3
               [] t = "an" -> 2
               [] t = "sent" -> 4
               [] t = "attachment" -> 10
               [] t = "seen" -> 4
               [] t = " Ann " -> 5
\* /^\d{1,2}:\d{2}/.test(t)
ClockTexts == { "9:05 AM" }
\* /^(AM|PM)$/i.test(t)
MeridiemTexts == { "PM" }
\* /^[A-Z][a-z]{2}\s\d{1,2},?\s\d{4}/.test(t)
LongDateTexts == { "Jan 31, 2024" }
\* /^\d{1,2}\/\d{1,2}\/\d{2,4}/.test(t)
SlashDateTexts == { "1/31/2024" }
\* s.includes('sent an attachment'), on lower-cased text
AttachmentPhraseTexts == { "you sent an attachment.", "ann sent an attachment" }
\* s.includes('sent a photo'), on lower-cased text
PhotoPhraseTexts == { }

commonLabels == { "sent", "seen", "liked", "reacted", "reply", "replied",
                  "message", "chat", "conversation", "participants",
                  "search", "loading", "active", "now", "edited",
                  "unsent", "forwarded", "admin",
                  "you sent an attachment.", "sent an attachment.",
                  "attachment", "video chat", "audio call",
                  "missed voice call", "missed video call" }

STOP_WORDS == { "the", "be", "to", "of", "and", "a", "in", "that", "have", "i",
                "it", "for", "not", "on", "with", "he", "as", "you", "do", "at",
                "this", "but", "his", "by", "from", "they", "we", "say", "her",
                "she", "or", "an", "will", "my", "one", "all", "would", "there",
                "their", "what", "so", "up", "out", "if", "about", "who", "get",
                "which", "go", "me", "when", "make", "can", "like", "time", "no",
                "just", "him", "know", "take", "people", "into", "year", "your",
                "good", "some", "could", "them", "see", "other", "than", "then",
                "now", "look", "only", "come", "its", "over", "think", "also",
                "back", "after", "use", "two", "how", "our", "work", "first",
                "well", "way", "even", "new", "want", "because", "any", "these",
                "give", "day", "most", "us", "is", "are", "was", "were", "had",
                "has", "sent", "attachment", "message", "chat", "pm", "am", "om",
                "ok", "okay", "lol", "yeah", "yes", "attachment." }

\* content.toLowerCase().replace(/[^\w\s]/gi, '').split(/\s+/)
Words(c) == CASE c = "" -> << "" >>
              [] c = "ok" -> << "ok" >>
              [] c = "hey U+1F600" -> << "hey", "" >>
              [] c = "You sent an attachment." -> << "you", "sent", "an", "attachment" >>
\* content.match(EMOJI_REGEX) || []
EmojiMatches(c) == CASE c = "hey U+1F600" -> << "U+1F600" >>
                     [] OTHER -> << >>

\* The properties every object inherits from Object.prototype: obj[name] is
\* defined (and truthy) for these names although obj has no such own key.
InheritedNames == { "constructor", "__proto__", "toString", "valueOf",
                    "hasOwnProperty", "isPrototypeOf", "propertyIsEnumerable",
                    "toLocaleString" }

\* The property names that are array indices (canonical numerals below
\* 2^32 - 1), with their values: an object lists these keys first, in
\* ascending numeric order, and its other string keys after them in
\* insertion order.
IndexNames == { "7", "42" }
IndexValue(name) == CASE name = "7" -> 7
                      [] name = "42" -> 42
IsArrayIndex(name) == name \in IndexNames
IsPlainKey(name) == name \notin IndexNames

(***************************************************************************)
(* isValidSender and extractDate.                                          *)
(***************************************************************************)
isValidSender(text) ==
    IF text = "" THEN FALSE
    ELSE LET t == Trim(text) IN
         /\ ~(StrLen(t) = 0 \/ StrLen(t) > MaxSenderLen)
         /\ t \notin ClockTexts
         /\ t \notin MeridiemTexts
         /\ t \notin LongDateTexts
         /\ t \notin SlashDateTexts
         /\ Lower(t) \notin commonLabels
         /\ Lower(t) \notin AttachmentPhraseTexts

\* A date text is modelled by what the Date constructor makes of it:
\* kind "" is the empty string, "date" a text Date parses to the time t,
\* "junk" a text Date parses to NaN.
NoDate == [ok |-> FALSE, t |-> 0]
DateText(t) == [kind |-> "date", t |-> t]
EmptyDateText == [kind |-> "", t |-> 0]
JunkDateText == [kind |-> "junk", t |-> 0]

extractDate(dateStr) ==
    IF dateStr.kind = "" THEN NoDate
    ELSE IF dateStr.kind = "date" THEN [ok |-> TRUE, t |-> dateStr.t]
    ELSE NoDate

(***************************************************************************)
(* Array.prototype.sort with a comparator: a stable insertion of every     *)
(* element behind the elements it is not strictly before.                  *)
(***************************************************************************)
\* InsertSorted that puts an element before the elements of equal key
RECURSIVE InsertSorted_Unstable(_, _)
InsertSorted_Unstable(x, s) ==
    IF s = << >> THEN << x >>
    ELSE IF x[1] <= Head(s)[1] THEN << x >> \o s
    ELSE << Head(s) >> \o InsertSorted_Unstable(x, Tail(s))

\* The elements are pairs << key, item >>, ordered by ascending key.
RECURSIVE InsertSorted(_, _)
InsertSorted(x, s) ==
    IF s = << >> THEN << x >>
    ELSE IF x[1] < Head(s)[1] THEN << x >> \o s
    ELSE << Head(s) >> \o InsertSorted(x, Tail(s))

RECURSIVE SortPairs(_)
SortPairs(s) ==
    IF s = << >> THEN << >>
    ELSE InsertSorted(s[Len(s)], SortPairs(SubSeq(s, 1, Len(s) - 1)))

StableSort(keys, items) ==
    LET sorted == SortPairs([ i \in 1..Len(items) |-> << keys[i], items[i] >> ])
    IN [ i \in 1..Len(items) |-> sorted[i][2] ]

\* rawMessages.sort((a, b) => a.timestamp.getTime() - b.timestamp.getTime())
SortMessages(msgs) == StableSort([ i \in 1..Len(msgs) |-> msgs[i].timestamp ], msgs)

\* Object.keys(dailyActivity).sort(): the keys as strings, in code unit order
SortKeys(keys) == StableSort([ i \in 1..Len(keys) |-> KeyOrdinal(keys[i]) ], keys)

\* s.replyTimes.sort((a, b) => a - b)
SortNumbers(xs) == StableSort(xs, xs)

\* .sort((a, b) => b.count - a.count)
SortSendersByCount(xs) == StableSort([ i \in 1..Len(xs) |-> 0 - xs[i].count ], xs)

(***************************************************************************)
(* The per-sender accumulator of the analysis loop.                        *)
(***************************************************************************)
NewSender(name) ==
    [ name |-> name, count |-> 0, wordCounts |-> EmptyMap, reelCount |-> 0,
      attachmentCount |-> 0, totalLen |-> 0, replyTimes |-> << >>,
      consecutiveCount |-> 0, maxConsecutive |-> 0, emojis |-> EmptyMap,
      initiatedCount |-> 0, lateNight |-> 0, morning |-> 0, afternoon |-> 0,
      evening |-> 0 ]

\* words.forEach(w => { if (w.length > 1 && !STOP_WORDS.has(w)) ... })
IsCounted(w) == StrLen(w) > 1 /\ w \notin STOP_WORDS
CountedWords(content) == SelectSeq(Words(content), IsCounted)

RECURSIVE BumpAll(_, _)
BumpAll(f, keys) ==
    IF keys = << >> THEN f ELSE BumpAll(Bump(f, Head(keys)), Tail(keys))

\* the "Basics", "Words", "Emojis" and "Time Buckets" parts of the loop body
\* applied to an accumulator
AccumulateMessage(s, msg) ==
    LET hour == GetHours(msg.timestamp) IN
    [ s EXCEPT
        !.count = @ + 1,
        !.reelCount = IF msg.type = "reel" THEN @ + 1 ELSE @,
        !.attachmentCount = IF msg.type = "attachment" THEN @ + 1 ELSE @,
        !.totalLen = @ + StrLen(msg.content),
        !.wordCounts = BumpAll(@, CountedWords(msg.content)),
        !.emojis = BumpAll(@, EmojiMatches(msg.content)),
        !.lateNight = IF hour >= 0 /\ hour < 4 THEN @ + 1 ELSE @,
        !.morning = IF ~(hour >= 0 /\ hour < 4) /\ hour >= 4 /\ hour < 12
                    THEN @ + 1 ELSE @,
        !.afternoon = IF ~(hour >= 0 /\ hour < 4) /\ ~(hour >= 4 /\ hour < 12)
                         /\ hour >= 12 /\ hour < 20
                      THEN @ + 1 ELSE @,
        !.evening = IF ~(hour >= 0 /\ hour < 4) /\ ~(hour >= 4 /\ hour < 12)
                       /\ ~(hour >= 12 /\ hour < 20)
                    THEN @ + 1 ELSE @ ]

\* getSender(name): the accumulator senderMap[name] if that is truthy, a
\* new one otherwise.  For an inherited name senderMap[name] is the value
\* inherited from Object.prototype: no accumulator is created, and
\* getSender returns that foreign value.
IsForeign(map, name) == name \notin DOMAIN map /\ name \in InheritedNames
WithSender(map, name) ==
    IF name \in DOMAIN map \/ name \in InheritedNames THEN map
    ELSE map @@ (name :> NewSender(name))

\* The value of a property that the loop writes onto Object.prototype when
\* the sender name is "__proto__": undefined and NaN (neither is a number,
\* both are falsy and both become NaN under ++) or a number.
NotANumber == [ num |-> FALSE, n |-> 0 ]
Number(k) == [ num |-> TRUE, n |-> k ]
Truthy(v) == v.num /\ v.n # 0
Increment(v) == IF v.num THEN Number(v.n + 1) ELSE NotANumber

\* getSender(name) for a name that is no own key of senderMap while
\* Object.prototype has a truthy number under that name: senderMap[name] is
\* that number, no accumulator is created, and "sender.count++" on the
\* number throws a TypeError (module code is strict).  proto is the value of
\* Object.prototype.consecutiveCount, the one property the loop can leave
\* truthy there.
InheritsNumber(map, name, proto) ==
    name \notin DOMAIN map /\ name = "consecutiveCount" /\ Truthy(proto)

\* Object.prototype.consecutiveCount after an iteration on the foreign value
\* of an inherited name that did not throw: "sender.consecutiveCount++"
\* runs on Object.prototype when "__proto__" follows "__proto__"
ProtoAfterForeign(proto, prev, msg) ==
    IF msg.sender = "__proto__" /\ prev # << >> /\ prev[1].sender = msg.sender
    THEN Increment(proto)
    ELSE proto

\* Object.prototype.consecutiveCount after an iteration on an accumulator:
\* "prevSender.consecutiveCount = 0" runs on Object.prototype when the
\* message answers "__proto__"
ProtoAfterOwn(proto, prev, msg) ==
    IF prev # << >> /\ prev[1].sender # msg.sender /\ prev[1].sender = "__proto__"
    THEN Number(0)
    ELSE proto

\* timeDiffMinutes
TimeDiffMinutes(prev, msg) == msg.timestamp - prev.timestamp

\* The "Advanced Dynamics" part of the loop body for a message whose sender
\* has an accumulator in map; prev is << >> or << previousMsg >>.
ReplyDynamics(map, prev, msg) ==
    LET cur == msg.sender IN
    IF prev = << >>
    THEN [ map EXCEPT ![cur].initiatedCount = @ + 1 ]
    ELSE IF prev[1].sender # cur
    THEN LET diff == TimeDiffMinutes(prev[1], msg)
             replied == [ map EXCEPT
                 ![cur].replyTimes = Append(@, diff),
                 ![cur].initiatedCount =
                     IF diff > InitiationGapMinutes THEN @ + 1 ELSE @ ]
         IN IF prev[1].sender \in DOMAIN replied
            THEN [ replied EXCEPT ![prev[1].sender].consecutiveCount = 0 ]
            ELSE replied
    ELSE LET bumped == [ map EXCEPT ![cur].consecutiveCount = @ + 1 ]
         IN IF bumped[cur].consecutiveCount > bumped[cur].maxConsecutive
            THEN [ bumped EXCEPT ![cur].maxConsecutive = bumped[cur].consecutiveCount ]
            ELSE bumped

\* The loop body run on the foreign value of an inherited name throws a
\* TypeError where it reads sender.wordCounts[w], sender.emojis[e] or
\* sender.replyTimes.push: wordCounts, emojis and replyTimes are undefined.
ForeignThrows(prev, msg) ==
    \/ CountedWords(msg.content) # << >>
    \/ EmojiMatches(msg.content) # << >>
    \/ prev # << >> /\ prev[1].sender # msg.sender

(***************************************************************************)
(* The computations after the loop.                                        *)
(***************************************************************************)
\* StreakScan that drops the running maximum when a streak breaks
RECURSIVE StreakScan_ForgetsMax(_, _, _, _)
StreakScan_ForgetsMax(sortedDays, i, currentStreak, maxStreak) ==
    IF i > Len(sortedDays) THEN Max(maxStreak, currentStreak)
    ELSE LET diffTime == Abs(DateOfKey(sortedDays[i]) - DateOfKey(sortedDays[i - 1]))
             diffDays == CeilDiv(diffTime, MinutesPerDay)
         IN IF diffDays = 1
            THEN StreakScan_ForgetsMax(sortedDays, i + 1, currentStreak + 1, maxStreak)
            ELSE StreakScan_ForgetsMax(sortedDays, i + 1, 1, maxStreak)

\* "Calculate Global Streaks (Day based)": maxDayStreak
RECURSIVE StreakScan(_, _, _, _)
StreakScan(sortedDays, i, currentStreak, maxStreak) ==
    IF i > Len(sortedDays) THEN Max(maxStreak, currentStreak)
    ELSE LET diffTime == Abs(DateOfKey(sortedDays[i]) - DateOfKey(sortedDays[i - 1]))
             diffDays == CeilDiv(diffTime, MinutesPerDay)
         IN IF diffDays = 1
            THEN StreakScan(sortedDays, i + 1, currentStreak + 1, maxStreak)
            ELSE StreakScan(sortedDays, i + 1, 1, Max(maxStreak, currentStreak))

MaxDayStreak(sortedDays) ==
    IF Len(sortedDays) > 0 THEN StreakScan(sortedDays, 2, 1, 1) ELSE 0

\* GapScan without "if (diff > maxGap)": the last difference wins
RECURSIVE GapScan_KeepsLast(_, _, _)
GapScan_KeepsLast(sortedDays, i, maxGap) ==
    IF i > Len(sortedDays) THEN maxGap
    ELSE LET diff == DateOfKey(sortedDays[i]) - DateOfKey(sortedDays[i - 1])
         IN GapScan_KeepsLast(sortedDays, i + 1, diff)

\* "Longest Gap": Math.floor of the largest difference in days
RECURSIVE GapScan(_, _, _)
GapScan(sortedDays, i, maxGap) ==
    IF i > Len(sortedDays) THEN maxGap
    ELSE LET diff == DateOfKey(sortedDays[i]) - DateOfKey(sortedDays[i - 1])
         IN GapScan(sortedDays, i + 1, IF diff > maxGap THEN diff ELSE maxGap)

LongestGapDays(sortedDays) ==
    IF Len(sortedDays) > 1
    THEN FloorDiv(GapScan(sortedDays, 2, 0), MinutesPerDay)
    ELSE 0

\* "Busiest Day" / "Busiest Month": the first entry, in Object.entries
\* order, with the strictly largest count
NoKey == << >>
\* BusiestScan with "count >= busiestDay.count": the last of a tie wins
RECURSIVE BusiestScan_LastWins(_, _, _)
BusiestScan_LastWins(order, counts, best) ==
    IF order = << >> THEN best
    ELSE BusiestScan_LastWins(Tail(order), counts,
                     IF counts[Head(order)] >= best.count
                     THEN [ date |-> Head(order), count |-> counts[Head(order)] ]
                     ELSE best)

RECURSIVE BusiestScan(_, _, _)
BusiestScan(order, counts, best) ==
    IF order = << >> THEN best
    ELSE BusiestScan(Tail(order), counts,
                     IF counts[Head(order)] > best.count
                     THEN [ date |-> Head(order), count |-> counts[Head(order)] ]
                     ELSE best)

BusiestDay(order, counts) == BusiestScan(order, counts, [ date |-> NoKey, count |-> 0 ])
BusiestMonth(order, counts) == BusiestScan(order, counts, [ date |-> NoKey, count |-> 0 ]).date

\* activeDaysPct: Math.round((sortedDays.length / totalDaysSpan) * 100),
\* totalDaysSpan = (lastDate - firstDate) / one day, 0 unless the span is positive
ActiveDaysPct(msgs, sortedDays) ==
    IF Len(msgs) > 0
    THEN LET spanMinutes == msgs[Len(msgs)].timestamp - msgs[1].timestamp
         IN IF spanMinutes > 0
            THEN RoundDiv(Len(sortedDays) * MinutesPerDay * 100, spanMinutes)
            ELSE 0
    ELSE 0

\* SenderStatOf without "s.replyTimes.sort((a, b) => a - b)"
SenderStatOf_Unsorted(s, idx) ==
    LET replyTimes == s.replyTimes
        n == Len(replyTimes)
    IN [ name |-> s.name,
         count |-> s.count,
         color |-> COLORS[((idx - 1) % NumColors) + 1],
         wordCounts |-> s.wordCounts,
         reelCount |-> s.reelCount,
         attachmentCount |-> s.attachmentCount,
         avgMessageLength |-> IF s.count > 0 THEN RoundDiv(s.totalLen, s.count) ELSE 0,
         avgReplyTimeMinutes |-> IF n > 0 THEN RoundDiv(SumSeq(replyTimes), n) ELSE 0,
         fastestReplySeconds |-> IF n > 0 THEN replyTimes[1] * 60 ELSE 0,
         slowestReplyMinutes |-> IF n > 0 THEN replyTimes[n] ELSE 0,
         longestStreakMessages |-> s.maxConsecutive,
         emojis |-> s.emojis,
         initiatedConversations |-> s.initiatedCount,
         lateNightMessages |-> s.lateNight,
         morningMessages |-> s.morning,
         afternoonMessages |-> s.afternoon,
         eveningMessages |-> s.evening ]

\* "Final Sender Stats Assembly": one SenderStat per accumulator
SenderStatOf(s, idx) ==
    LET replyTimes == SortNumbers(s.replyTimes)
        n == Len(replyTimes)
    IN [ name |-> s.name,
         count |-> s.count,
         color |-> COLORS[((idx - 1) % NumColors) + 1],
         wordCounts |-> s.wordCounts,
         reelCount |-> s.reelCount,
         attachmentCount |-> s.attachmentCount,
         avgMessageLength |-> IF s.count > 0 THEN RoundDiv(s.totalLen, s.count) ELSE 0,
         avgReplyTimeMinutes |-> IF n > 0 THEN RoundDiv(SumSeq(replyTimes), n) ELSE 0,
         fastestReplySeconds |-> IF n > 0 THEN replyTimes[1] * 60 ELSE 0,
         slowestReplyMinutes |-> IF n > 0 THEN replyTimes[n] ELSE 0,
         longestStreakMessages |-> s.maxConsecutive,
         emojis |-> s.emojis,
         initiatedConversations |-> s.initiatedCount,
         lateNightMessages |-> s.lateNight,
         morningMessages |-> s.morning,
         afternoonMessages |-> s.afternoon,
         eveningMessages |-> s.evening ]

\* the own keys of an object whose string keys were inserted in the given
\* order, as Object.keys / Object.values / Object.entries list them
OwnKeys(order) ==
    LET indices == SelectSeq(order, IsArrayIndex)
    IN StableSort([ i \in 1..Len(indices) |-> IndexValue(indices[i]) ], indices)
           \o SelectSeq(order, IsPlainKey)

\* Object.values(senderMap).map(...).sort((a, b) => b.count - a.count)
AssembleSenders(order, map) ==
    LET keys == OwnKeys(order)
    IN SortSendersByCount([ i \in 1..Len(keys) |-> SenderStatOf(map[keys[i]], i) ])

(***************************************************************************)
(* The documents of the model.  A document is what the selectors of the    *)
(* three strategies find in the parsed tree:                               *)
(*   pam       the '.pam, ._3-96, ._a6-g' containers, each with its header *)
(*             text, the text of its time marker, the content the strategy *)
(*             settles on, and whether one of its links is a reel link;    *)
(*   dateDivs  the divs whose trimmed text is shorter than 50 and matches  *)
(*             META_DATE_REGEX, each with the texts of its previous        *)
(*             siblings (nearest first), of its parent's previous sibling, *)
(*             of its next sibling and of its parent's next sibling;       *)
(*   telegram  the '.message' elements, each with its .from_name text, the *)
(*             title attribute and the text of its .date node, its .text   *)
(*             content and whether it holds a .photo or a .video.          *)
(***************************************************************************)
SeqsUpTo(S, n) == UNION { [1..k -> S] : k \in 0..n }

At(dayNumber, hour, minute) == dayNumber * MinutesPerDay + hour * MinutesPerHour + minute
Jan1 == DaysFromCivil(<< 2024, 1, 1 >>)
Jan31 == DaysFromCivil(<< 2024, 1, 31 >>)
T0 == At(Jan31, 9, 0)
T1 == At(Jan31, 15, 0)
T2 == At(Jan31, 15, 40)
T3 == At(Jan31 + 1, 2, 0)
T4 == At(Jan31 + 3, 21, 0)
T5 == At(Jan31 + 2, 12, 0)

PamEl(header, dateStr, content, reelLink) ==
    [ header |-> header, dateStr |-> dateStr, content |-> content, reelLink |-> reelLink ]

BaseDoc == [ name |-> "chat.html", text |-> "html", readFails |-> FALSE,
             pam |-> << >>, dateDivs |-> << >>, telegram |-> << >>, nodeCount |-> 7 ]

\* class-anchored documents with valid messages only
RichEls ==
    { PamEl(n, DateText(t), "hey U+1F600", FALSE) : n \in { "Ann", "Ben" }, t \in { T0, T1, T2, T3, T4 } }
    \cup { PamEl("Ann", DateText(T0), "You sent an attachment.", TRUE),
           PamEl("Ben", DateText(T1), "ok", FALSE),
           PamEl("Ann", DateText(T5), "ok", FALSE),
           PamEl("Ben", DateText(T5), "hey U+1F600", FALSE) }
    \cup { PamEl("constructor", DateText(t), c, FALSE) : t \in { T0, T2 }, c \in { "ok", "hey U+1F600" } }
RichDocs == { [ BaseDoc EXCEPT !.pam = s ] : s \in SeqsUpTo(RichEls, MaxMsgs) \ { << >> } }

\* documents exercising the cascade: candidates of every strategy, valid or not
CascadePam ==
    { PamEl(h, d, "You sent an attachment.", r) :
        h \in { "Ann", "Seen", Absent }, d \in { DateText(T0), JunkDateText }, r \in BOOLEAN }
CascadeDivs ==
    [ dateStr : { DateText(T1), JunkDateText },
      prevSiblings : { << >>, << "9:05 AM", " Ann " >>, << "" >> },
      parentPrev : { Absent, "Ben" },
      next : { Absent, "ok" },
      parentNext : { "You sent an attachment." } ]
CascadeTelegram ==
    [ fromName : { "Ben", "PM" },
      title : { EmptyDateText, DateText(T2) },
      dateText : { JunkDateText },
      content : { "hey U+1F600" },
      media : { "none", "photo", "photo+video" } ]
CascadeDocs ==
    { [ BaseDoc EXCEPT !.pam = p, !.dateDivs = d, !.telegram = g ] :
        p \in SeqsUpTo(CascadePam, 1), d \in SeqsUpTo(CascadeDivs, 1),
        g \in SeqsUpTo(CascadeTelegram, 1) }

\* class-anchored documents of two containers, valid or not
ScreenDocs == { [ BaseDoc EXCEPT !.pam = << a, b >> ] : a \in CascadePam, b \in CascadePam }

\* Ann at 09:00, 09:05, 09:10 and Ben at 09:20 on 2024-01-01, as a
\* Telegram export
TgEl(name, t) ==
    [ fromName |-> name, title |-> DateText(t), dateText |-> JunkDateText,
      content |-> "hey U+1F600", media |-> "none" ]
AnnBenDoc ==
    [ BaseDoc EXCEPT !.telegram =
        << TgEl("Ann", At(Jan1, 9, 0)), TgEl("Ann", At(Jan1, 9, 5)),
           TgEl("Ann", At(Jan1, 9, 10)), TgEl("Ben", At(Jan1, 9, 20)) >> ]

\* Telegram exports whose senders include names that are array indices
TieEls == { TgEl(n, At(Jan1, 9, m)) : n \in { "Ann", "7", "42" }, m \in { 0, 5 } }
TieDocs == { [ BaseDoc EXCEPT !.telegram = s ] : s \in SeqsUpTo(TieEls, MaxMsgs) \ { << >> } }

\* Telegram exports in which Ben answers Ann twice
ReplyDocs ==
    { [ BaseDoc EXCEPT !.telegram =
          << TgEl("Ann", At(Jan1, 9, 0)), TgEl("Ben", At(Jan1, 9, g1)),
             TgEl("Ann", At(Jan1, 9, 30)), TgEl("Ben", At(Jan1, 9, 30 + g2)) >> ] :
        g1 \in { 5, 10, 20 }, g2 \in { 0, 5, 15, 25 } }

\* class-anchored documents whose senders include "__proto__" and the name
\* of a property the loop writes, and one without such names
ProtoDoc ==
    [ BaseDoc EXCEPT !.pam = << PamEl("__proto__", DateText(T0), "ok", FALSE),
                                PamEl("__proto__", DateText(T1), "ok", FALSE),
                                PamEl("consecutiveCount", DateText(T2), "ok", FALSE) >> ]
ProtoAnnDoc ==
    [ BaseDoc EXCEPT !.pam = << PamEl("__proto__", DateText(T0), "ok", FALSE),
                                PamEl("Ann", DateText(T1), "ok", FALSE) >> ]
PropertyNameDoc ==
    [ BaseDoc EXCEPT !.pam = << PamEl("consecutiveCount", DateText(T0), "ok", FALSE) >> ]
AnnBenPamDoc ==
    [ BaseDoc EXCEPT !.pam = << PamEl("Ann", DateText(T0), "ok", FALSE),
                                PamEl("Ben", DateText(T1), "ok", FALSE) >> ]
\* Ann alone, with two longer messages
AnnTwiceDoc ==
    [ BaseDoc EXCEPT !.pam = << PamEl("Ann", DateText(T0), "hey U+1F600", FALSE),
                                PamEl("Ann", DateText(T1), "hey U+1F600", FALSE) >> ]
SharedDocs == { ProtoDoc, ProtoAnnDoc, PropertyNameDoc, AnnBenPamDoc, AnnTwiceDoc }

\* one Telegram message at every hour of 2024-01-01
HourDocs == { [ BaseDoc EXCEPT !.telegram = << TgEl("Ann", At(Jan1, h, 0)) >> ] : h \in 0..23 }

\* a file without text, and a file the FileReader fails to read
EmptyDoc == [ BaseDoc EXCEPT !.text = "" ]
UnreadableDoc == [ BaseDoc EXCEPT !.readFails = TRUE ]

Docs == RichDocs \cup CascadeDocs \cup ScreenDocs \cup HourDocs \cup TieDocs \cup ReplyDocs
        \cup SharedDocs
        \cup { AnnBenDoc, EmptyDoc, UnreadableDoc }
\* the documents that are parsed more than once
RepeatDocs == { d \in RichDocs : Len(d.pam) <= 2 } \cup SharedDocs
                  \cup { AnnBenDoc, EmptyDoc, UnreadableDoc }

(***************************************************************************)
(* State.                                                                  *)
(***************************************************************************)
VARIABLES
    file,            \* the File handed to parseChatFile
    callsLeft,       \* how many more times the same file will be selected
    clock,           \* the wall clock, read by new Date() at assembly
    history,         \* the outcomes of the earlier calls on this file
    past,            \* every earlier call: its file and its outcome
    globalWrites,    \* inherited names whose foreign value got properties written
    protoConsecutiveCount,  \* Object.prototype.consecutiveCount
    status,          \* App: UploadStatus
    error,           \* App: << >> for null, << message >> otherwise
    filesProgress,   \* App: the status of each FileProgress entry, in list order
    newResults,      \* handleFilesSelected: the results collected by the running batch
    results,         \* App: ChatAnalysisResult[]
    timer,           \* whether the setTimeout of the finally block is pending
    heap,            \* the objects the dashboard's aggregation read and wrote
    stats,           \* StatsDashboard: << >> before the first render with results
    pc,              \* position inside the current call
    ran,             \* the strategies that have extracted so far in this call
    rawMessages,     \* RawMessage[], each with the strategy that pushed it (via)
    detectedFormat,
    idx,             \* position of the analysis loop in rawMessages
    previousMsg,     \* << >> for null, << msg >> otherwise
    senderMap,       \* own keys of senderMap -> accumulator
    senderOrder,     \* the own keys of senderMap in insertion order
    hourlyStats,
    timelineStats,
    dailyActivity,
    dayOrder,        \* the keys of dailyActivity in insertion order
    monthCounts,
    monthOrder,      \* the keys of monthCounts in insertion order
    outcome          \* how the promise of the current call settled

locals == << ran, rawMessages, detectedFormat, idx, previousMsg, senderMap,
             senderOrder, hourlyStats, timelineStats, dailyActivity, dayOrder,
             monthCounts, monthOrder >>
app == << status, error, filesProgress, newResults, results, timer, heap, stats >>
vars == << file, callsLeft, clock, history, past, globalWrites, protoConsecutiveCount,
          pc, outcome, locals, app >>

Pending == [ kind |-> "pending" ]
Rejected(msg) == [ kind |-> "rejected", error |-> msg ]
Resolved(res) == [ kind |-> "resolved", result |-> res ]

\* the locals of a call before the onload handler has run
FreshLocals ==
    /\ ran = { }
    /\ rawMessages = << >>
    /\ detectedFormat = "Unknown"
    /\ idx = 0
    /\ previousMsg = << >>
    /\ senderMap = EmptyMap
    /\ senderOrder = << >>
    /\ hourlyStats = EmptyMap
    /\ timelineStats = EmptyMap
    /\ dailyActivity = EmptyMap
    /\ dayOrder = << >>
    /\ monthCounts = EmptyMap
    /\ monthOrder = << >>

(***************************************************************************)
(* StatsDashboard: the stats useMemo.  The SenderStat objects and their    *)
(* wordCounts and emojis maps live in a heap, so that an object reached    *)
(* through two references is one object:                                   *)
(*   objs   << i, j >> is sender j of results[i]; << 0, k >> is the k-th   *)
(*          object the aggregation created.  The wordCounts and emojis     *)
(*          fields hold references into maps; the two averages are         *)
(*          fractions n / d, since the aggregation halves them;            *)
(*   maps   << i, j, 1 >> is the wordCounts of << i, j >>, << i, j, 2 >>   *)
(*          its emojis.                                                    *)
(* A result never lists a sender under a name of Object.prototype (the     *)
(* parser keeps no accumulator for those), so the only inherited value the *)
(* dashboard's senderMap can return is a consecutiveCount written onto     *)
(* Object.prototype by the parser.                                         *)
(***************************************************************************)
Fraction(k) == [ n |-> k, d |-> 1 ]
SameFraction(x, y) == x.n * y.d = y.n * x.d

\* (exist.avg + s.avg) / 2
MeanOfTwo(x, y) == [ n |-> x.n * y.d + y.n * x.d, d |-> 2 * x.d * y.d ]

EmptyHeap == [ objs |-> EmptyMap, maps |-> EmptyMap ]

\* the references results.forEach(res => res.senders.forEach(...)) visits, in order
RECURSIVE SenderRefs(_, _)
SenderRefs(rs, i) ==
    IF i > Len(rs) THEN << >>
    ELSE [ j \in 1..Len(rs[i].senders) |-> << i, j >> ] \o SenderRefs(rs, i + 1)

InHeap(s, ref) ==
    [ s EXCEPT !.wordCounts = << ref[1], ref[2], 1 >>,
               !.emojis = << ref[1], ref[2], 2 >>,
               !.avgMessageLength = Fraction(@),
               !.avgReplyTimeMinutes = Fraction(@) ]

\* the props of StatsDashboard as objects
InputHeap(rs) ==
    LET visited == SenderRefs(rs, 1)
        refs == { visited[k] : k \in 1..Len(visited) }
    IN [ objs |-> [ r \in refs |-> InHeap(rs[r[1]].senders[r[2]], r) ],
         maps |-> [ m \in { << r[1], r[2], f >> : r \in refs, f \in 1..2 } |->
                      IF m[3] = 1 THEN rs[m[1]].senders[m[2]].wordCounts
                      ELSE rs[m[1]].senders[m[2]].emojis ] ]

\* exist.wordCounts[k] = (exist.wordCounts[k] || 0) + v, for every entry of the other map
MergeCounts(mine, other) ==
    [ k \in DOMAIN mine \cup DOMAIN other |->
        (IF k \in DOMAIN mine THEN mine[k] ELSE 0)
        + (IF k \in DOMAIN other THEN other[k] ELSE 0) ]

\* senderMap[s.name] = s
NewEntry_Aliased(st, ref) ==
    LET s == st.heap.objs[ref]
    IN [ st EXCEPT !.senderMap = @ @@ (s.name :> ref),
                   !.order = Append(@, s.name) ]

\* senderMap[s.name] = { ...s, wordCounts: { ...s.wordCounts }, emojis: { ...s.emojis } }
NewEntry(st, ref) ==
    LET s == st.heap.objs[ref]
        k == st.made + 1
        copy == << 0, k >>
    IN [ st EXCEPT
           !.heap = [ objs |-> st.heap.objs @@
                                 (copy :> [ s EXCEPT !.wordCounts = << 0, k, 1 >>,
                                                     !.emojis = << 0, k, 2 >> ]),
                      maps |-> st.heap.maps @@
                                 (<< 0, k, 1 >> :> st.heap.maps[s.wordCounts]) @@
                                 (<< 0, k, 2 >> :> st.heap.maps[s.emojis]) ],
           !.senderMap = @ @@ (s.name :> copy),
           !.order = Append(@, s.name),
           !.made = k ]

\* the else branch: exist = senderMap[s.name] takes in s
MergeInto(st, ref) ==
    LET s == st.heap.objs[ref]
        exist == st.senderMap[s.name]
        e == st.heap.objs[exist]
    IN [ st EXCEPT
           !.heap = [ objs |-> [ st.heap.objs EXCEPT ![exist] =
                        [ e EXCEPT
                            !.count = @ + s.count,
                            !.reelCount = @ + s.reelCount,
                            !.attachmentCount = @ + s.attachmentCount,
                            !.lateNightMessages = @ + s.lateNightMessages,
                            !.morningMessages = @ + s.morningMessages,
                            !.afternoonMessages = @ + s.afternoonMessages,
                            !.eveningMessages = @ + s.eveningMessages,
                            !.initiatedConversations = @ + s.initiatedConversations,
                            !.avgMessageLength = MeanOfTwo(@, s.avgMessageLength),
                            !.avgReplyTimeMinutes = MeanOfTwo(@, s.avgReplyTimeMinutes),
                            !.longestStreakMessages = Max(@, s.longestStreakMessages) ] ],
                      maps |-> [ st.heap.maps EXCEPT
                                   ![e.wordCounts] = MergeCounts(@, st.heap.maps[s.wordCounts]),
                                   ![e.emojis] = MergeCounts(@, st.heap.maps[s.emojis]) ] ] ]

\* one call of the inner forEach callback; proto is Object.prototype.consecutiveCount
MergeSender(st, ref, proto) ==
    LET name == st.heap.objs[ref].name
    IN IF st.threw THEN st
       ELSE IF name \in DOMAIN st.senderMap THEN MergeInto(st, ref)
       ELSE IF InheritsNumber(st.senderMap, name, proto)
       THEN \* exist is a number: exist.count += s.count throws in a module
            [ st EXCEPT !.threw = TRUE ]
       ELSE NewEntry(st, ref)

RECURSIVE MergeFrom(_, _, _)
MergeFrom(st, refs, proto) ==
    IF refs = << >> THEN st
    ELSE MergeFrom(MergeSender(st, Head(refs), proto), Tail(refs), proto)

\* "Merge Senders"
MergeSenders(rs, proto) ==
    MergeFrom([ heap |-> InputHeap(rs), senderMap |-> EmptyMap, order |-> << >>,
                made |-> 0, threw |-> FALSE ],
              SenderRefs(rs, 1), proto)

\* an object of the heap with its two maps in place
Deref(h, ref) ==
    [ h.objs[ref] EXCEPT !.wordCounts = h.maps[@], !.emojis = h.maps[@] ]

\* results.forEach(res => Object.entries(res.<field>).forEach(... map[k] = (map[k] || 0) + v))
RECURSIVE MergeMaps(_, _, _)
MergeMaps(rs, i, acc) ==
    IF i > Len(rs) THEN acc
    ELSE MergeMaps(rs, i + 1, [ timeline |-> MergeCounts(acc.timeline, rs[i].timelineStats),
                                hourly |-> MergeCounts(acc.hourly, rs[i].hourlyStats) ])

\* results.reduce((prev, curr) => curr.busiestDay.count > prev.count ? curr.busiestDay : prev, ...)
RECURSIVE BusiestOf(_, _, _)
BusiestOf(rs, i, prev) ==
    IF i > Len(rs) THEN prev
    ELSE BusiestOf(rs, i + 1, IF rs[i].busiestDay.count > prev.count
                              THEN rs[i].busiestDay ELSE prev)

\* .map(r => r.<date>).filter(d => d): the results without messages have null
DatesOf(rs, last) ==
    { (IF last THEN rs[i].lastMessageDate ELSE rs[i].firstMessageDate)[1] :
        i \in { k \in 1..Len(rs) : rs[k].firstMessageDate # << >> } }

\* the object the useMemo returns; the chart arrays and busiestMonth are
\* read off timeline and hourly
StatsOf(rs, merged) ==
    IF merged.threw THEN [ threw |-> TRUE ]
    ELSE LET keys == OwnKeys(merged.order)
             maps == MergeMaps(rs, 1, [ timeline |-> EmptyMap, hourly |-> EmptyMap ])
             firsts == DatesOf(rs, FALSE)
             lasts == DatesOf(rs, TRUE)
         IN [ threw |-> FALSE,
              totalMessages |-> SumSeq([ i \in 1..Len(rs) |-> rs[i].totalMessages ]),
              senders |-> SortSendersByCount(
                              [ i \in 1..Len(keys) |->
                                  Deref(merged.heap, merged.senderMap[keys[i]]) ]),
              timeline |-> maps.timeline,
              hourly |-> maps.hourly,
              longestDayStreak |->
                  CHOOSE m \in { rs[i].longestDayStreak : i \in 1..Len(rs) } :
                      \A i \in 1..Len(rs) : m >= rs[i].longestDayStreak,
              longestGapDays |->
                  CHOOSE m \in { rs[i].longestGapDays : i \in 1..Len(rs) } :
                      \A i \in 1..Len(rs) : m >= rs[i].longestGapDays,
              activeDaysPct |-> rs[1].activeDaysPct,
              busiestDay |-> BusiestOf(rs, 1, [ date |-> NoKey, count |-> 0 ]),
              firstDate |-> IF firsts = { } THEN << >>
                            ELSE << CHOOSE t \in firsts : \A u \in firsts : t <= u >>,
              lastDate |-> IF lasts = { } THEN << >>
                           ELSE << CHOOSE t \in lasts : \A u \in lasts : t >= u >> ]

(***************************************************************************)
(* App: the state of the component and the pieces of handleFilesSelected.  *)
(***************************************************************************)
NoMessagesDetected ==
    "Could not detect any messages in the uploaded files. Ensure they are valid HTML chat exports."

\* try { result = await parseChatFile(file); if (result.totalMessages > 0)
Succeeded(o) == o.kind = "resolved" /\ o.result.totalMessages > 0

\* every entry is marked 'complete', whatever its parse ended in
FileStatusOf_AlwaysComplete(o) == "complete"

\* the status the loop body gives the entry of a file whose parse ended in o
FileStatusOf(o) == IF Succeeded(o) THEN "complete" ELSE "error"

\* newResults.unshift(result)
Collected_NewestFirst(list, o) == IF Succeeded(o) THEN << o.result >> \o list ELSE list

\* newResults.push(result), in the succeeding branch only
Collected(list, o) == IF Succeeded(o) THEN Append(list, o.result) ELSE list

\* the index i of the loop, counted from 1
CurrentIndex == Len(past) + 1

\* setFilesProgress(prev => prev.map((fp, idx) => idx === i ? {...fp, status} : fp))
Marked(progress, i, st) == [ progress EXCEPT ![i] = st ]

\* the end of iteration i and the start of iteration i + 1, up to its await
NextIteration ==
    /\ filesProgress' = Marked(Marked(filesProgress, CurrentIndex, FileStatusOf(outcome)),
                               CurrentIndex + 1, "processing")
    /\ newResults' = Collected(newResults, outcome)
    /\ UNCHANGED << status, error, results, timer, heap, stats >>

Init ==
    /\ \/ file \in Docs /\ callsLeft = 0
       \/ file \in RepeatDocs /\ callsLeft = MaxCalls - 1
    /\ clock = 0
    /\ history = << >>
    /\ past = << >>
    /\ globalWrites = { }
    /\ protoConsecutiveCount = NotANumber
    /\ pc = "idle"
    /\ outcome = Pending
    /\ FreshLocals
    /\ status = "idle"
    /\ error = << >>
    /\ filesProgress = << >>
    /\ newResults = << >>
    /\ results = << >>
    /\ timer = FALSE
    /\ heap = EmptyHeap
    /\ stats = << >>

\* handleFilesSelected up to the first await: the list holds the file
\* 1 + callsLeft times
HandleFilesSelected ==
    /\ pc = "idle"
    /\ status' = "parsing"
    /\ error' = << >>
    /\ filesProgress' = [ i \in 1..(callsLeft + 1) |->
                             IF i = 1 THEN "processing" ELSE "pending" ]
    /\ newResults' = << >>
    /\ pc' = "reading"
    /\ UNCHANGED << file, callsLeft, clock, history, past, globalWrites,
                    protoConsecutiveCount, outcome, locals, results, timer, heap, stats >>

(***************************************************************************)
(* parseChatFile: the FileReader callbacks.                                *)
(***************************************************************************)
\* reader.onerror = () => reject(new Error("Failed to read file"))
ReadError ==
    /\ pc = "reading"
    /\ file.readFails
    /\ pc' = "settled"
    /\ outcome' = Rejected("Failed to read file")
    /\ UNCHANGED << app, file, callsLeft, clock, history, past, globalWrites,
                    protoConsecutiveCount, locals >>

\* reader.onload, up to the DOMParser call
OnLoad ==
    /\ pc = "reading"
    /\ ~file.readFails
    /\ IF file.text = ""
       THEN pc' = "settled" /\ outcome' = Rejected("Empty file content")
       ELSE pc' = "strategy1" /\ outcome' = outcome
    /\ UNCHANGED << app, file, callsLeft, clock, history, past, globalWrites,
                    protoConsecutiveCount, locals >>

\* STRATEGY 1, one container
Strategy1Message(el) ==
    LET name == IF el.header = Absent THEN Absent ELSE Trim(el.header)
        date == extractDate(el.dateStr)
        lowerText == Lower(el.content)
        type == IF lowerText \in AttachmentPhraseTexts \/ lowerText \in PhotoPhraseTexts
                THEN IF el.reelLink THEN "reel" ELSE "attachment"
                ELSE "text"
    IN IF name # Absent /\ name # "" /\ isValidSender(name) /\ date.ok
       THEN << [ sender |-> name, timestamp |-> date.t, content |-> el.content,
                 type |-> type, via |-> 1 ] >>
       ELSE << >>

\* pamElements.forEach
RECURSIVE Strategy1Messages(_)
Strategy1Messages(els) ==
    IF els = << >> THEN << >>
    ELSE Strategy1Message(Head(els)) \o Strategy1Messages(Tail(els))

Strategy1 ==
    /\ pc = "strategy1"
    /\ rawMessages' = rawMessages \o Strategy1Messages(file.pam)
    /\ detectedFormat' = IF Len(file.pam) > 0 THEN "Meta/Instagram Export (Class)"
                         ELSE detectedFormat
    /\ ran' = ran \cup { 1 }
    /\ pc' = "strategy2"
    /\ UNCHANGED << app, file, callsLeft, clock, history, past, globalWrites,
                    protoConsecutiveCount, outcome, idx,
                    previousMsg, senderMap, senderOrder, hourlyStats, timelineStats,
                    dailyActivity, dayOrder, monthCounts, monthOrder >>

\* STRATEGY 2, one date div
RECURSIVE FirstValidSender(_)
FirstValidSender(texts) ==
    IF texts = << >> THEN ""
    ELSE IF Head(texts) # "" /\ isValidSender(Head(texts)) THEN Trim(Head(texts))
    ELSE FirstValidSender(Tail(texts))

Strategy2Message(div) ==
    LET date == extractDate(div.dateStr)
        bySibling == FirstValidSender(div.prevSiblings)
        sender == IF bySibling = "" /\ div.parentPrev # Absent
                     /\ div.parentPrev # "" /\ isValidSender(div.parentPrev)
                  THEN Trim(div.parentPrev)
                  ELSE bySibling
        content == IF div.next # Absent THEN div.next
                   ELSE IF div.parentNext # Absent THEN div.parentNext
                   ELSE ""
        type == IF Lower(content) \in AttachmentPhraseTexts THEN "attachment" ELSE "text"
    IN IF date.ok /\ sender # ""
       THEN << [ sender |-> sender, timestamp |-> date.t, content |-> content,
                 type |-> type, via |-> 2 ] >>
       ELSE << >>

\* for (let i = 0; i < allDivs.length; i++), over the matching divs
RECURSIVE Strategy2Messages(_)
Strategy2Messages(divs) ==
    IF divs = << >> THEN << >>
    ELSE Strategy2Message(Head(divs)) \o Strategy2Messages(Tail(divs))

\* Strategy2 without "if (rawMessages.length === 0)"
Strategy2_Unguarded ==
    /\ pc = "strategy2"
    /\ LET found == Strategy2Messages(file.dateDivs) IN
       /\ rawMessages' = rawMessages \o found
       /\ detectedFormat' = IF found # << >> THEN "Meta/Instagram Export (Heuristic)"
                            ELSE detectedFormat
       /\ ran' = ran \cup { 2 }
    /\ pc' = "strategy3"
    /\ UNCHANGED << app, file, callsLeft, clock, history, past, globalWrites,
                    protoConsecutiveCount, outcome, idx,
                    previousMsg, senderMap, senderOrder, hourlyStats, timelineStats,
                    dailyActivity, dayOrder, monthCounts, monthOrder >>

Strategy2 ==
    /\ pc = "strategy2"
    /\ IF Len(rawMessages) = 0
       THEN LET found == Strategy2Messages(file.dateDivs) IN
            /\ rawMessages' = rawMessages \o found
            /\ detectedFormat' = IF found # << >> THEN "Meta/Instagram Export (Heuristic)"
                                 ELSE detectedFormat
            /\ ran' = ran \cup { 2 }
       ELSE UNCHANGED << rawMessages, detectedFormat, ran >>
    /\ pc' = "strategy3"
    /\ UNCHANGED << app, file, callsLeft, clock, history, past, globalWrites,
                    protoConsecutiveCount, outcome, idx,
                    previousMsg, senderMap, senderOrder, hourlyStats, timelineStats,
                    dailyActivity, dayOrder, monthCounts, monthOrder >>

\* Strategy3Message without "if (name && isValidSender(name) && date)"
Strategy3Message_Unchecked(msg) ==
    LET name == IF msg.fromName = Absent THEN Absent ELSE Trim(msg.fromName)
        dateStr == IF msg.title.kind # "" THEN msg.title ELSE msg.dateText
        date == extractDate(dateStr)
        type == IF msg.media = "photo+video" \/ msg.media = "video" THEN "reel"
                ELSE IF msg.media = "photo" THEN "attachment"
                ELSE "text"
    IN << [ sender |-> name, timestamp |-> date.t, content |-> msg.content,
            type |-> type, via |-> 3 ] >>

\* STRATEGY 3, one .message element
Strategy3Message(msg) ==
    LET name == IF msg.fromName = Absent THEN Absent ELSE Trim(msg.fromName)
        dateStr == IF msg.title.kind # "" THEN msg.title ELSE msg.dateText
        date == extractDate(dateStr)
        type == IF msg.media = "photo+video" \/ msg.media = "video" THEN "reel"
                ELSE IF msg.media = "photo" THEN "attachment"
                ELSE "text"
    IN IF name # Absent /\ name # "" /\ isValidSender(name) /\ date.ok
       THEN << [ sender |-> name, timestamp |-> date.t, content |-> msg.content,
                 type |-> type, via |-> 3 ] >>
       ELSE << >>

\* telegramMessages.forEach
RECURSIVE Strategy3Messages(_)
Strategy3Messages(els) ==
    IF els = << >> THEN << >>
    ELSE Strategy3Message(Head(els)) \o Strategy3Messages(Tail(els))

Strategy3 ==
    /\ pc = "strategy3"
    /\ IF Len(rawMessages) = 0
       THEN /\ rawMessages' = rawMessages \o Strategy3Messages(file.telegram)
            /\ detectedFormat' = IF Len(file.telegram) > 0 THEN "Telegram Export"
                                 ELSE detectedFormat
            /\ ran' = ran \cup { 3 }
       ELSE UNCHANGED << rawMessages, detectedFormat, ran >>
    /\ pc' = "sort"
    /\ UNCHANGED << app, file, callsLeft, clock, history, past, globalWrites,
                    protoConsecutiveCount, outcome, idx,
                    previousMsg, senderMap, senderOrder, hourlyStats, timelineStats,
                    dailyActivity, dayOrder, monthCounts, monthOrder >>

\* SortStep without "if (rawMessages.length === 0) throw"
SortStep_NoEmptyCheck ==
    /\ pc = "sort"
    /\ rawMessages' = SortMessages(rawMessages)
    /\ idx' = 1
    /\ pc' = "analyze"
    /\ outcome' = outcome
    /\ UNCHANGED << app, file, callsLeft, clock, history, past, globalWrites,
                    protoConsecutiveCount, ran, detectedFormat,
                    previousMsg, senderMap, senderOrder, hourlyStats, timelineStats,
                    dailyActivity, dayOrder, monthCounts, monthOrder >>

\* the empty check and "Pass 2: Sort"
SortStep ==
    /\ pc = "sort"
    /\ IF Len(rawMessages) = 0
       THEN /\ pc' = "settled"
            /\ outcome' = Rejected("No messages found or format unrecognized.")
            /\ UNCHANGED << rawMessages, idx >>
       ELSE /\ rawMessages' = SortMessages(rawMessages)
            /\ idx' = 1
            /\ pc' = "analyze"
            /\ outcome' = outcome
    /\ UNCHANGED << app, file, callsLeft, clock, history, past, globalWrites,
                    protoConsecutiveCount, ran, detectedFormat,
                    previousMsg, senderMap, senderOrder, hourlyStats, timelineStats,
                    dailyActivity, dayOrder, monthCounts, monthOrder >>

\* one iteration of rawMessages.forEach in the "Analysis Loop"
Analyze ==
    /\ pc = "analyze"
    /\ idx <= Len(rawMessages)
    /\ LET msg == rawMessages[idx]
           name == msg.sender
           dayKey == DayKey(msg.timestamp)
           monthKey == MonthKey(msg.timestamp)
       IN IF InheritsNumber(senderMap, name, protoConsecutiveCount)
          THEN \* getSender returned a number written onto Object.prototype
               /\ pc' = "settled"
               /\ outcome' = Rejected("TypeError")
               /\ UNCHANGED << idx, previousMsg, senderMap, senderOrder,
                               hourlyStats, timelineStats, dailyActivity,
                               dayOrder, monthCounts, monthOrder, globalWrites,
                               protoConsecutiveCount >>
          ELSE IF IsForeign(senderMap, name)
          THEN \* getSender returned a value inherited from Object.prototype
               /\ globalWrites' = globalWrites \cup { name }
               /\ IF ForeignThrows(previousMsg, msg)
                  THEN /\ pc' = "settled"
                       /\ outcome' = Rejected("TypeError")
                       /\ UNCHANGED << idx, previousMsg, senderMap, senderOrder,
                                       hourlyStats, timelineStats, dailyActivity,
                                       dayOrder, monthCounts, monthOrder,
                                       protoConsecutiveCount >>
                  ELSE /\ protoConsecutiveCount' =
                              ProtoAfterForeign(protoConsecutiveCount, previousMsg, msg)
                       /\ hourlyStats' = Bump(hourlyStats, GetHours(msg.timestamp))
                       /\ timelineStats' = Bump(timelineStats, dayKey)
                       /\ dailyActivity' = Bump(dailyActivity, dayKey)
                       /\ dayOrder' = IF dayKey \in DOMAIN dailyActivity THEN dayOrder
                                      ELSE Append(dayOrder, dayKey)
                       /\ monthCounts' = Bump(monthCounts, monthKey)
                       /\ monthOrder' = IF monthKey \in DOMAIN monthCounts THEN monthOrder
                                        ELSE Append(monthOrder, monthKey)
                       /\ previousMsg' = << msg >>
                       /\ idx' = idx + 1
                       /\ UNCHANGED << pc, outcome, senderMap, senderOrder >>
          ELSE LET created == WithSender(senderMap, name)
                   counted == [ created EXCEPT ![name] = AccumulateMessage(@, msg) ]
               IN /\ senderMap' = ReplyDynamics(counted, previousMsg, msg)
                  /\ protoConsecutiveCount' =
                         ProtoAfterOwn(protoConsecutiveCount, previousMsg, msg)
                  /\ senderOrder' = IF name \in DOMAIN senderMap THEN senderOrder
                                    ELSE Append(senderOrder, name)
                  /\ hourlyStats' = Bump(hourlyStats, GetHours(msg.timestamp))
                  /\ timelineStats' = Bump(timelineStats, dayKey)
                  /\ dailyActivity' = Bump(dailyActivity, dayKey)
                  /\ dayOrder' = IF dayKey \in DOMAIN dailyActivity THEN dayOrder
                                 ELSE Append(dayOrder, dayKey)
                  /\ monthCounts' = Bump(monthCounts, monthKey)
                  /\ monthOrder' = IF monthKey \in DOMAIN monthCounts THEN monthOrder
                                   ELSE Append(monthOrder, monthKey)
                  /\ previousMsg' = << msg >>
                  /\ idx' = idx + 1
                  /\ UNCHANGED << pc, outcome, globalWrites >>
    /\ UNCHANGED << app, file, callsLeft, clock, history, past, ran, rawMessages, detectedFormat >>

\* the ChatAnalysisResult built after the loop
BuildResult ==
    LET sortedDays == SortKeys(dayOrder)
        \* << >> stands for null; toISOString() names the instant itself
        firstDate == IF Len(rawMessages) > 0 THEN << rawMessages[1].timestamp >> ELSE << >>
        lastDate == IF Len(rawMessages) > 0 THEN << rawMessages[Len(rawMessages)].timestamp >>
                    ELSE << >>
    IN [ fileName |-> file.name,
         totalMessages |-> Len(rawMessages),
         senders |-> AssembleSenders(senderOrder, senderMap),
         hourlyStats |-> hourlyStats,
         timelineStats |-> timelineStats,
         totalDays |-> Len(sortedDays),
         firstMessageDate |-> firstDate,
         lastMessageDate |-> lastDate,
         longestGapDays |-> LongestGapDays(sortedDays),
         longestDayStreak |-> MaxDayStreak(sortedDays),
         activeDaysPct |-> ActiveDaysPct(rawMessages, sortedDays),
         busiestDay |-> BusiestDay(dayOrder, dailyActivity),
         busiestMonth |-> BusiestMonth(monthOrder, monthCounts),
         metadata |-> [ parsedAt |-> clock,
                        rawNodeCount |-> file.nodeCount,
                        detectedFormat |-> detectedFormat ] ]

\* the computations after the loop, the assembly and resolve(result)
Assemble ==
    /\ pc = "analyze"
    /\ idx > Len(rawMessages)
    /\ pc' = "settled"
    /\ outcome' = Resolved(BuildResult)
    /\ UNCHANGED << app, file, callsLeft, clock, history, past, globalWrites,
                    protoConsecutiveCount, locals >>

\* ParseAgain with senderMap kept from call to call
ParseAgain_SharedSenderMap ==
    /\ pc = "settled"
    /\ callsLeft > 0
    /\ callsLeft' = callsLeft - 1
    /\ history' = Append(history, outcome)
    /\ past' = Append(past, [ file |-> file, outcome |-> outcome ])
    /\ \E dt \in 0..1 : clock' = clock + dt
    /\ pc' = "reading"
    /\ outcome' = Pending
    /\ ran' = { }
    /\ rawMessages' = << >>
    /\ detectedFormat' = "Unknown"
    /\ idx' = 0
    /\ previousMsg' = << >>
    /\ hourlyStats' = EmptyMap
    /\ timelineStats' = EmptyMap
    /\ dailyActivity' = EmptyMap
    /\ dayOrder' = << >>
    /\ monthCounts' = EmptyMap
    /\ monthOrder' = << >>
    /\ NextIteration
    /\ UNCHANGED << file, globalWrites, protoConsecutiveCount, senderMap, senderOrder >>

\* the same file is handed to parseChatFile once more, now or later
ParseAgain ==
    /\ pc = "settled"
    /\ callsLeft > 0
    /\ callsLeft' = callsLeft - 1
    /\ history' = Append(history, outcome)
    /\ past' = Append(past, [ file |-> file, outcome |-> outcome ])
    /\ \E dt \in 0..1 : clock' = clock + dt
    /\ pc' = "reading"
    /\ outcome' = Pending
    /\ ran' = { }
    /\ rawMessages' = << >>
    /\ detectedFormat' = "Unknown"
    /\ idx' = 0
    /\ previousMsg' = << >>
    /\ senderMap' = EmptyMap
    /\ senderOrder' = << >>
    /\ hourlyStats' = EmptyMap
    /\ timelineStats' = EmptyMap
    /\ dailyActivity' = EmptyMap
    /\ dayOrder' = << >>
    /\ monthCounts' = EmptyMap
    /\ monthOrder' = << >>
    /\ NextIteration
    /\ UNCHANGED << file, globalWrites, protoConsecutiveCount >>

\* another file is handed to parseChatFile in the same page
ParseNext ==
    /\ pc = "settled"
    /\ callsLeft > 0
    /\ file \in SharedDocs \cup { EmptyDoc }
    /\ \E f \in SharedDocs \ { file } : file' = f
    /\ callsLeft' = callsLeft - 1
    /\ history' = << >>
    /\ past' = Append(past, [ file |-> file, outcome |-> outcome ])
    /\ \E dt \in 0..1 : clock' = clock + dt
    /\ pc' = "reading"
    /\ outcome' = Pending
    /\ ran' = { }
    /\ rawMessages' = << >>
    /\ detectedFormat' = "Unknown"
    /\ idx' = 0
    /\ previousMsg' = << >>
    /\ senderMap' = EmptyMap
    /\ senderOrder' = << >>
    /\ hourlyStats' = EmptyMap
    /\ timelineStats' = EmptyMap
    /\ dailyActivity' = EmptyMap
    /\ dayOrder' = << >>
    /\ monthCounts' = EmptyMap
    /\ monthOrder' = << >>
    /\ NextIteration
    /\ UNCHANGED << globalWrites, protoConsecutiveCount >>

\* the end of the last iteration and the code after the loop
FinishBatch ==
    /\ pc = "settled"
    /\ callsLeft = 0
    /\ LET collected == Collected(newResults, outcome)
       IN /\ filesProgress' = Marked(filesProgress, CurrentIndex, FileStatusOf(outcome))
          /\ newResults' = collected
          /\ IF Len(collected) = 0
             THEN \* allFailed: files.length > 0
                  /\ error' = << NoMessagesDetected >>
                  /\ status' = "error"
                  /\ results' = results
             ELSE /\ results' = results \o collected
                  /\ status' = "complete"
                  /\ error' = error
          \* finally: if (newResults.length > 0) setTimeout(..., 500)
          /\ timer' = (Len(collected) > 0)
    /\ pc' = "finished"
    /\ UNCHANGED << file, callsLeft, clock, history, past, globalWrites,
                    protoConsecutiveCount, outcome, locals, heap, stats >>

\* the callback of setTimeout(() => setStatus('complete'), 500)
ShowComplete ==
    /\ pc = "finished"
    /\ timer
    \* the render that follows setResults comes before a timer of 500 ms
    /\ stats # << >>
    /\ timer' = FALSE
    /\ status' = "complete"
    /\ UNCHANGED << file, callsLeft, clock, history, past, globalWrites,
                    protoConsecutiveCount, pc, outcome, locals,
                    error, filesProgress, newResults, results, heap, stats >>

\* StatsDashboard is rendered with the new results: the stats useMemo runs
Aggregate ==
    /\ pc = "finished"
    /\ Len(results) > 0
    /\ stats = << >>
    /\ LET merged == MergeSenders(results, protoConsecutiveCount)
       IN /\ heap' = merged.heap
          /\ stats' = << StatsOf(results, merged) >>
    /\ UNCHANGED << file, callsLeft, clock, history, past, globalWrites,
                    protoConsecutiveCount, pc, outcome, locals,
                    status, error, filesProgress, newResults, results, timer >>

Next ==
    \/ ReadError
    \/ OnLoad
    \/ Strategy1
    \/ Strategy2
    \/ Strategy3
    \/ SortStep
    \/ Analyze
    \/ Assemble
    \/ ParseAgain
    \/ ParseNext
    \/ HandleFilesSelected
    \/ FinishBatch
    \/ ShowComplete
    \/ Aggregate

Spec == Init /\ [][Next]_vars

TypeOK ==
    /\ pc \in { "idle", "finished", "reading", "strategy1", "strategy2", "strategy3", "sort", "analyze", "settled" }
    /\ outcome.kind \in { "pending", "rejected", "resolved" }
    /\ callsLeft \in 0..MaxCalls
    /\ idx \in 0..(Len(rawMessages) + 1)

(***************************************************************************)
(* Properties.                                                             *)
(***************************************************************************)
IsResolved == pc = "settled" /\ outcome.kind = "resolved"
IsRejected == pc = "settled" /\ outcome.kind = "rejected"
FormatError == "No messages found or format unrecognized."

SenderCounts(senders) == [ i \in 1..Len(senders) |-> senders[i].count ]

\* what each strategy extracts from the file
Yield(k) == CASE k = 1 -> Strategy1Messages(file.pam)
              [] k = 2 -> Strategy2Messages(file.dateDivs)
              [] k = 3 -> Strategy3Messages(file.telegram)

\* C1: for every resolved result the per-sender counts sum to
\* totalMessages, and so do the hourlyStats values and the timelineStats
\* values.
C1_CountsAgree ==
    IsResolved =>
        /\ SumSeq(SenderCounts(outcome.result.senders)) = outcome.result.totalMessages
        /\ SumFun(outcome.result.hourlyStats) = outcome.result.totalMessages
        /\ SumFun(outcome.result.timelineStats) = outcome.result.totalMessages

\* C1, restricted to files none of whose senders bears a name inherited
\* from Object.prototype: there the sums agree.
C1_CountsAgreeOwnNames ==
    (IsResolved /\ \A i \in 1..Len(rawMessages) : rawMessages[i].sender \notin InheritedNames) =>
        /\ SumSeq(SenderCounts(outcome.result.senders)) = outcome.result.totalMessages
        /\ SumFun(outcome.result.hourlyStats) = outcome.result.totalMessages
        /\ SumFun(outcome.result.timelineStats) = outcome.result.totalMessages

\* C2: a readable, non-empty file from which every strategy extracts zero
\* messages is rejected with the format error, and every resolved result
\* has totalMessages >= 1.
C2_NeverEmptyResult ==
    /\ IsResolved => outcome.result.totalMessages >= 1
    /\ ( /\ pc = "settled"
         /\ ~file.readFails
         /\ file.text # ""
         /\ \A k \in 1..3 : Yield(k) = << >> )
       => outcome = Rejected(FormatError)

\* C2 witness: a file with candidates for every strategy, all discarded,
\* has been rejected with the format error.
C2_Witness ==
    /\ IsRejected
    /\ outcome.error = FormatError
    /\ Len(file.pam) > 0 /\ Len(file.dateDivs) > 0 /\ Len(file.telegram) > 0

\* C3: strategy 2 extracts only after strategy 1 yielded nothing, strategy
\* 3 only after strategies 1 and 2 yielded nothing, and all extracted
\* messages come from one strategy, the first with a non-empty yield.
C3_FirstYieldingStrategy ==
    LET yield1 == Yield(1)
        yield2 == Yield(2)
        yield3 == Yield(3)
        YieldOf(k) == CASE k = 1 -> yield1 [] k = 2 -> yield2 [] k = 3 -> yield3
    IN /\ 2 \in ran => 1 \in ran /\ yield1 = << >>
       /\ 3 \in ran => 2 \in ran /\ yield1 = << >> /\ yield2 = << >>
       /\ \A i \in 1..Len(rawMessages) :
             /\ YieldOf(rawMessages[i].via) # << >>
             /\ \A k \in 1..(rawMessages[i].via - 1) : YieldOf(k) = << >>
       /\ pc \in { "sort", "analyze", "settled" } /\ file.text # "" /\ ~file.readFails =>
             \A k \in 1..3 :
                 (YieldOf(k) # << >> /\ \A j \in 1..(k - 1) : YieldOf(j) = << >>)
                     => Len(rawMessages) = Len(YieldOf(k))

\* C3 witness: the heuristic scan produced the result although the file
\* also holds class-anchored containers (all discarded) and Telegram
\* messages with a valid sender and date (never extracted).
C3_Witness ==
    /\ IsResolved
    /\ rawMessages[1].via = 2
    /\ Len(file.pam) > 0
    /\ Yield(3) # << >>
    /\ 3 \notin ran

\* C4: two calls on the same file settle identically in every field.
C4_Deterministic ==
    \A i \in 1..Len(history) : pc = "settled" => outcome = history[i]

\* an outcome with metadata.parsedAt blanked
WithoutParsedAt(o) ==
    IF o.kind = "resolved"
    THEN [ o EXCEPT !.result.metadata.parsedAt = 0 ]
    ELSE o

\* C4, metadata.parsedAt left aside: two calls on the same file settle
\* identically in every other field.
C4_DeterministicButParsedAt ==
    \A i \in 1..Len(history) :
        pc = "settled" => WithoutParsedAt(outcome) = WithoutParsedAt(history[i])

\* C4, metadata.parsedAt left aside, as long as no call has written onto a
\* value inherited from Object.prototype
C4_DeterministicButParsedAtOwnNames ==
    \A i \in 1..Len(history) :
        (pc = "settled" /\ globalWrites = { })
            => WithoutParsedAt(outcome) = WithoutParsedAt(history[i])

\* C4 witness: the second call on a file resolved, at a later wall-clock
\* time than the first, with messages of two senders.
C4_Witness ==
    /\ IsResolved
    /\ Len(history) = 1
    /\ history[1].kind = "resolved"
    /\ history[1].result.metadata.parsedAt # outcome.result.metadata.parsedAt
    /\ Len(outcome.result.senders) = 2

\* the analysis loop is about to process rawMessages[idx]
AtMessage == pc = "analyze" /\ idx <= Len(rawMessages)
\* getSender(name) returns a value inherited from Object.prototype
ResolvesInherited(name) ==
    IsForeign(senderMap, name) \/ InheritsNumber(senderMap, name, protoConsecutiveCount)
Cur == rawMessages[idx]
\* the accumulator of a sender before the step (a new one if none exists)
AccBefore(n) == IF n \in DOMAIN senderMap THEN senderMap[n] ELSE NewSender(n)
IsReplyStep == AtMessage /\ previousMsg # << >> /\ previousMsg[1].sender # Cur.sender
IsSameSenderStep == AtMessage /\ previousMsg # << >> /\ previousMsg[1].sender = Cur.sender
GapMinutes == Cur.timestamp - previousMsg[1].timestamp

\* the effect C5 claims for a reply by sender B
ReplyEffect(B) ==
    /\ B \in DOMAIN senderMap'
    /\ senderMap'[B].replyTimes = Append(AccBefore(B).replyTimes, GapMinutes)
    /\ senderMap'[B].initiatedCount =
           AccBefore(B).initiatedCount + (IF GapMinutes > 360 THEN 1 ELSE 0)
    /\ LET A == previousMsg[1].sender IN
       A \in DOMAIN senderMap =>
           /\ senderMap'[A].replyTimes = senderMap[A].replyTimes
           /\ senderMap'[A].initiatedCount = senderMap[A].initiatedCount

\* C5: when the processed message follows a message of another sender, the
\* gap in minutes is appended to the reply-gap list of the message's own
\* sender (not to the previous sender's), and that sender's initiation
\* counter goes up by one exactly when the gap exceeds 360 minutes.
C5_ReplyGapToReplier ==
    [][ IsReplyStep => ReplyEffect(Cur.sender) ]_vars

\* C5, for repliers whose name does not resolve to a value inherited from
\* Object.prototype
C5_ReplyGapToReplierOwnNames ==
    [][ (IsReplyStep /\ ~ResolvesInherited(Cur.sender)) => ReplyEffect(Cur.sender) ]_vars

\* the effect C6 claims for a message of the same sender S as the previous
SameSenderEffect(S) ==
    /\ S \in DOMAIN senderMap /\ S \in DOMAIN senderMap'
    /\ senderMap'[S].replyTimes = senderMap[S].replyTimes
    /\ senderMap'[S].consecutiveCount = senderMap[S].consecutiveCount + 1
    /\ senderMap'[S].maxConsecutive =
           Max(senderMap[S].maxConsecutive, senderMap[S].consecutiveCount + 1)

\* the effect C6 claims for an interleaving message on the sender A of the
\* previous message
ResetEffect(A) ==
    (A \in DOMAIN senderMap /\ pc' = "analyze") => senderMap'[A].consecutiveCount = 0

\* C6: a message of the same sender as the previous one adds nothing to
\* that sender's reply-gap list, increments the sender's consecutive
\* counter and raises the running maximum when exceeded; a message of
\* another sender resets the previous sender's consecutive counter to 0.
C6_SameSenderStreak ==
    [][ /\ IsSameSenderStep => SameSenderEffect(Cur.sender)
        /\ IsReplyStep => ResetEffect(previousMsg[1].sender) ]_vars

\* C6, for senders whose name is not inherited from Object.prototype
C6_SameSenderStreakOwnNames ==
    [][ /\ (IsSameSenderStep /\ Cur.sender \notin InheritedNames)
            => SameSenderEffect(Cur.sender)
        /\ IsReplyStep => ResetEffect(previousMsg[1].sender) ]_vars

StatOf(name) ==
    LET senders == outcome.result.senders
    IN senders[CHOOSE i \in 1..Len(senders) : senders[i].name = name]

\* C7: Ann at 09:00, 09:05, 09:10 and Ben at 09:20 on 2024-01-01 give
\* totalMessages 4, hourlyStats["9"] 4, the single timeline entry
\* 2024-01-01 -> 4, Ann's longest streak 3, Ben's reply gaps [10], Ben's
\* initiation count 0, longestDayStreak 1 and longestGapDays 0.
C7_AnnBenScenario ==
    (IsResolved /\ file = AnnBenDoc) =>
        /\ outcome.result.totalMessages = 4
        /\ outcome.result.hourlyStats = (9 :> 4)
        /\ outcome.result.timelineStats = (<< 2024, 1, 1 >> :> 4)
        /\ StatOf("Ann").longestStreakMessages = 3
        /\ senderMap["Ben"].replyTimes = << 10 >>
        /\ StatOf("Ben").initiatedConversations = 0
        /\ outcome.result.longestDayStreak = 1
        /\ outcome.result.longestGapDays = 0

\* C7 with the streak the code reports: every other value of the scenario
\* is as claimed, and Ann's longest streak is 2
C7_AnnBenScenarioStreakTwo ==
    (IsResolved /\ file = AnnBenDoc) =>
        /\ outcome.result.totalMessages = 4
        /\ outcome.result.hourlyStats = (9 :> 4)
        /\ outcome.result.timelineStats = (<< 2024, 1, 1 >> :> 4)
        /\ StatOf("Ann").longestStreakMessages = 2
        /\ senderMap["Ben"].replyTimes = << 10 >>
        /\ StatOf("Ben").initiatedConversations = 0
        /\ outcome.result.longestDayStreak = 1
        /\ outcome.result.longestGapDays = 0

\* the calendar days (day numbers) on which the file has messages
ActiveDayNumbers == { rawMessages[i].timestamp \div 1440 : i \in 1..Len(rawMessages) }
\* the length of the run of consecutive days of S that starts at d
RECURSIVE RunFrom(_, _)
RunFrom(S, d) == IF d \in S THEN 1 + RunFrom(S, d + 1) ELSE 0
\* the longest run of consecutive calendar days within S
LongestRun(S) ==
    IF S = { } THEN 0
    ELSE LET runs == { RunFrom(S, d) : d \in S }
         IN CHOOSE n \in runs : \A m \in runs : m <= n
AllConsecutive(S) == \A d \in S : d - 1 \in S \/ \A e \in S : d <= e

\* C8: longestDayStreak is at least 1, it is the longest run of
\* consecutive calendar days among the active days (a next active day one
\* calendar day later continues a run, any other restarts it at one), and
\* it equals the number of active days when those are all consecutive.
C8_LongestDayStreak ==
    IsResolved =>
        /\ outcome.result.longestDayStreak >= 1
        /\ outcome.result.longestDayStreak = LongestRun(ActiveDayNumbers)
        /\ AllConsecutive(ActiveDayNumbers) =>
               outcome.result.longestDayStreak = Cardinality(ActiveDayNumbers)

\* C8 witness: three active days, 2024-01-31, 2024-02-01 and 2024-02-03:
\* the streak runs over the month boundary and restarts after the gap.
C8_Witness ==
    /\ IsResolved
    /\ Cardinality(ActiveDayNumbers) = 3
    /\ outcome.result.longestDayStreak = 2

\* C9: activeDaysPct of every resolved result lies in 0..100.
C9_PctInRange ==
    IsResolved => outcome.result.activeDaysPct \in 0..100

\* C10: activeDaysPct is 0 when all messages fall on one active day.
C10_PctZeroOnSingleDay ==
    (IsResolved /\ Cardinality(ActiveDayNumbers) = 1) => outcome.result.activeDaysPct = 0

\* the candidates of a strategy that carry a date text Date can parse and
\* a sender text the validator accepts
PamCandidateOk(el) ==
    el.header # Absent /\ isValidSender(el.header) /\ el.dateStr.kind = "date"
DivSenderTexts(div) ==
    div.prevSiblings \o (IF div.parentPrev = Absent THEN << >> ELSE << div.parentPrev >>)
DivCandidateOk(div) ==
    /\ div.dateStr.kind = "date"
    /\ \E i \in 1..Len(DivSenderTexts(div)) :
          DivSenderTexts(div)[i] # "" /\ isValidSender(DivSenderTexts(div)[i])
TelegramCandidateOk(msg) ==
    /\ msg.fromName # Absent /\ isValidSender(msg.fromName)
    /\ IF msg.title.kind # "" THEN msg.title.kind = "date" ELSE msg.dateText.kind = "date"
CandidateTimes(k) ==
    CASE k = 1 -> { file.pam[i].dateStr.t : i \in { j \in 1..Len(file.pam) : PamCandidateOk(file.pam[j]) } }
      [] k = 2 -> { file.dateDivs[i].dateStr.t :
                      i \in { j \in 1..Len(file.dateDivs) : DivCandidateOk(file.dateDivs[j]) } }
      [] k = 3 -> { (IF file.telegram[i].title.kind # "" THEN file.telegram[i].title
                     ELSE file.telegram[i].dateText).t :
                      i \in { j \in 1..Len(file.telegram) : TelegramCandidateOk(file.telegram[j]) } }
AcceptedCount(k) ==
    CASE k = 1 -> Cardinality({ j \in 1..Len(file.pam) : PamCandidateOk(file.pam[j]) })
      [] k = 2 -> Cardinality({ j \in 1..Len(file.dateDivs) : DivCandidateOk(file.dateDivs[j]) })
      [] k = 3 -> Cardinality({ j \in 1..Len(file.telegram) : TelegramCandidateOk(file.telegram[j]) })
CandidateCount(k) ==
    CASE k = 1 -> Len(file.pam) [] k = 2 -> Len(file.dateDivs) [] k = 3 -> Len(file.telegram)

\* C11: every raw message handed to the analysis loop, whichever strategy
\* pushed it, has a non-empty sender name that isValidSender accepts and the
\* timestamp of a candidate whose date text parsed; the candidates failing
\* either check are not among the raw messages, and totalMessages counts
\* the accepted candidates only.
C11_OnlyValidMessages ==
    LET times1 == CandidateTimes(1)
        times2 == CandidateTimes(2)
        times3 == CandidateTimes(3)
        TimesOf(k) == CASE k = 1 -> times1 [] k = 2 -> times2 [] k = 3 -> times3
        accepted == AcceptedCount(rawMessages[1].via)
    IN /\ \A i \in 1..Len(rawMessages) :
             /\ rawMessages[i].sender # ""
             /\ isValidSender(rawMessages[i].sender)
             /\ rawMessages[i].timestamp \in TimesOf(rawMessages[i].via)
       /\ rawMessages # << >> => Len(rawMessages) = accepted
       /\ IsResolved => outcome.result.totalMessages = accepted

\* a resolved parse of a file whose yielding strategy discarded a candidate
\* and kept another
C11_Witness ==
    /\ IsResolved
    /\ outcome.result.totalMessages >= 1
    /\ outcome.result.totalMessages < CandidateCount(rawMessages[1].via)

\* the messages of s with timestamp t, in the order of s
RECURSIVE AtTime(_, _)
AtTime(s, t) ==
    IF s = << >> THEN << >>
    ELSE (IF Head(s).timestamp = t THEN << Head(s) >> ELSE << >>) \o AtTime(Tail(s), t)

Timestamps(s) == { s[i].timestamp : i \in 1..Len(s) }
\* the messages in the order the yielding strategy pushed them
Extracted == Yield(rawMessages[1].via)

\* C12: the analysis loop runs over the messages in non-decreasing
\* timestamp order, the messages of one timestamp in the order the strategy
\* extracted them; each iteration leaves the message before the current one
\* in previousMsg; firstMessageDate is the least and lastMessageDate the
\* greatest timestamp.
C12_ChronologicalStable ==
    LET pushed == Extracted
        times == Timestamps(pushed)
    IN /\ (pc = "analyze" \/ (pc = "settled" /\ rawMessages # << >>)) =>
             /\ \A i \in 1..(Len(rawMessages) - 1) :
                   rawMessages[i].timestamp <= rawMessages[i + 1].timestamp
             /\ Len(rawMessages) = Len(pushed)
             /\ \A t \in times : AtTime(rawMessages, t) = AtTime(pushed, t)
             /\ (pc = "analyze" /\ idx > 1) => previousMsg = << rawMessages[idx - 1] >>
       /\ IsResolved =>
             /\ outcome.result.firstMessageDate # << >>
             /\ outcome.result.lastMessageDate # << >>
             /\ \A t \in times :
                   /\ outcome.result.firstMessageDate[1] <= t
                   /\ t <= outcome.result.lastMessageDate[1]
             /\ outcome.result.firstMessageDate[1] \in times
             /\ outcome.result.lastMessageDate[1] \in times

\* a resolved parse whose messages were extracted out of order, two
\* different ones carrying the same timestamp
C12_Witness ==
    /\ IsResolved
    /\ rawMessages # Extracted
    /\ \E i \in 1..Len(rawMessages) : \E j \in (i + 1)..Len(rawMessages) :
          /\ rawMessages[i].timestamp = rawMessages[j].timestamp
          /\ rawMessages[i] # rawMessages[j]

\* the step counts the processed message as an initiation of its sender S
\* exactly when initiates holds
InitiationEffect(S, initiates) ==
    /\ S \in DOMAIN senderMap'
    /\ senderMap'[S].initiatedCount =
           AccBefore(S).initiatedCount + (IF initiates THEN 1 ELSE 0)

\* C13: the processed message is counted as an initiation of its sender
\* exactly when it is the first message overall or comes more than 360
\* minutes after the previous message, whoever sent the previous message
\* (stated for senders whose name is not inherited from Object.prototype).
C13_InitiationAfterSilence ==
    [][ (AtMessage /\ ~ResolvesInherited(Cur.sender)) =>
            InitiationEffect(Cur.sender,
                             previousMsg = << >> \/ GapMinutes > InitiationGapMinutes) ]_vars

\* what the loop does: the silence counts only when the previous message
\* came from another sender
C13_InitiationOnSenderChange ==
    [][ (AtMessage /\ ~ResolvesInherited(Cur.sender)) =>
            InitiationEffect(Cur.sender,
                             \/ previousMsg = << >>
                             \/ /\ previousMsg[1].sender # Cur.sender
                                /\ GapMinutes > InitiationGapMinutes) ]_vars

\* the time-of-day counter the claimed ranges [0,4), [4,12), [12,20),
\* [20,24) choose for an hour
BucketFields == { "lateNight", "morning", "afternoon", "evening" }
BucketOf(hour) ==
    IF hour < 4 THEN "lateNight"
    ELSE IF hour < 12 THEN "morning"
    ELSE IF hour < 20 THEN "afternoon"
    ELSE "evening"
BucketSum(s) == s.lateNight + s.morning + s.afternoon + s.evening

\* the step adds one to the counter of S chosen by the hour of the processed
\* message and leaves the other three alone; afterwards the four counters
\* of every sender sum to the sender's count
BucketEffect(S) ==
    /\ S \in DOMAIN senderMap'
    /\ \A f \in BucketFields :
          senderMap'[S][f] = AccBefore(S)[f]
                               + (IF f = BucketOf(GetHours(Cur.timestamp)) THEN 1 ELSE 0)
    /\ \A n \in DOMAIN senderMap' : BucketSum(senderMap'[n]) = senderMap'[n].count

\* the four counters of every SenderStat of a result sum to its count
BucketsSumToCount ==
    IsResolved =>
        \A i \in 1..Len(outcome.result.senders) :
            LET s == outcome.result.senders[i]
            IN s.lateNightMessages + s.morningMessages + s.afternoonMessages
                   + s.eveningMessages = s.count

\* C14: every processed message adds one to exactly one of its sender's
\* four time-of-day counters, the one chosen by its hour with the ranges
\* [0,4), [4,12), [12,20), [20,24); the four counters of every sender sum
\* to the sender's message count.
C14_OneBucketPerMessage ==
    [][ /\ AtMessage => BucketEffect(Cur.sender)
        /\ BucketsSumToCount' ]_vars

\* C14, for senders whose name does not resolve to a value inherited from
\* Object.prototype
C14_OneBucketPerMessageOwnNames ==
    [][ /\ (AtMessage /\ ~ResolvesInherited(Cur.sender)) => BucketEffect(Cur.sender)
        /\ BucketsSumToCount' ]_vars

\* the position in the sorted messages of the first message of a sender
FirstSeen(name) ==
    CHOOSE i \in 1..Len(rawMessages) :
        /\ rawMessages[i].sender = name
        /\ \A j \in 1..(i - 1) : rawMessages[j].sender # name

CountsNonIncreasing(senders) ==
    \A i \in 1..(Len(senders) - 1) : senders[i].count >= senders[i + 1].count

\* C15: the senders of a result are in non-increasing order of count, and
\* senders of equal count are in the order of their first message in the
\* sorted sequence.
C15_SendersByCountThenFirstSeen ==
    IsResolved =>
        LET senders == outcome.result.senders IN
        /\ CountsNonIncreasing(senders)
        /\ \A i \in 1..Len(senders) : \A j \in (i + 1)..Len(senders) :
              senders[i].count = senders[j].count =>
                  FirstSeen(senders[i].name) < FirstSeen(senders[j].name)

\* what the assembly does: non-increasing count, and among senders of equal
\* count the names that are array indices first, by ascending value, then
\* the other names in first-seen order
C15_SendersByCountThenKeyOrder ==
    IsResolved =>
        LET senders == outcome.result.senders IN
        /\ CountsNonIncreasing(senders)
        /\ \A i \in 1..Len(senders) : \A j \in (i + 1)..Len(senders) :
              senders[i].count = senders[j].count =>
                  LET a == senders[i].name
                      b == senders[j].name
                  IN IF IsArrayIndex(a) /\ IsArrayIndex(b) THEN IndexValue(a) < IndexValue(b)
                     ELSE IF IsArrayIndex(b) THEN FALSE
                     ELSE IF IsArrayIndex(a) THEN TRUE
                     ELSE FirstSeen(a) < FirstSeen(b)

\* the palette entry for a one-based position
PaletteAt(r) == COLORS[((r - 1) % NumColors) + 1]
\* the one-based position of a name among the own keys of senderMap
KeyPosition(name) ==
    CHOOSE k \in 1..Len(OwnKeys(senderOrder)) : OwnKeys(senderOrder)[k] = name

\* C16: the sender at position r (from 0) of the count-ordered senders list
\* of a result has the color COLORS[r mod 8].
C16_ColorByRank ==
    IsResolved =>
        \A r \in 1..Len(outcome.result.senders) :
            outcome.result.senders[r].color = PaletteAt(r)

\* what the assembly does: the color is chosen by the sender's position
\* among the keys of senderMap, before the list is sorted by count
C16_ColorByKeyPosition ==
    IsResolved =>
        \A r \in 1..Len(outcome.result.senders) :
            outcome.result.senders[r].color
                = PaletteAt(KeyPosition(outcome.result.senders[r].name))

\* the reply gaps the loop collected for a sender of the result
GapsOf(name) == senderMap[name].replyTimes
SeqMin(s) == CHOOSE x \in { s[i] : i \in 1..Len(s) } : \A i \in 1..Len(s) : x <= s[i]
SeqMax(s) == CHOOSE x \in { s[i] : i \in 1..Len(s) } : \A i \in 1..Len(s) : x >= s[i]
\* a is the mean of s rounded to the nearest integer, halves up
IsRoundedMean(a, s) ==
    /\ 2 * Len(s) * a <= 2 * SumSeq(s) + Len(s)
    /\ 2 * SumSeq(s) + Len(s) < 2 * Len(s) * (a + 1)

\* C17: for every sender of a result, avgReplyTimeMinutes is the arithmetic
\* mean of the sender's reply gaps, fastestReplySeconds the least gap times
\* 60 and slowestReplyMinutes the greatest gap; all three are 0 when the
\* sender has no reply gap.
C17_ReplyStatsExact ==
    IsResolved =>
        \A i \in 1..Len(outcome.result.senders) :
            LET s == outcome.result.senders[i]
                gaps == GapsOf(s.name)
            IN IF gaps = << >>
               THEN /\ s.avgReplyTimeMinutes = 0
                    /\ s.fastestReplySeconds = 0
                    /\ s.slowestReplyMinutes = 0
               ELSE /\ s.avgReplyTimeMinutes * Len(gaps) = SumSeq(gaps)
                    /\ s.fastestReplySeconds = SeqMin(gaps) * 60
                    /\ s.slowestReplyMinutes = SeqMax(gaps)

\* C17 amended: avgReplyTimeMinutes is the mean rounded to the nearest
\* integer, halves up
C17_ReplyStatsRounded ==
    IsResolved =>
        \A i \in 1..Len(outcome.result.senders) :
            LET s == outcome.result.senders[i]
                gaps == GapsOf(s.name)
            IN IF gaps = << >>
               THEN /\ s.avgReplyTimeMinutes = 0
                    /\ s.fastestReplySeconds = 0
                    /\ s.slowestReplyMinutes = 0
               ELSE /\ IsRoundedMean(s.avgReplyTimeMinutes, gaps)
                    /\ s.fastestReplySeconds = SeqMin(gaps) * 60
                    /\ s.slowestReplyMinutes = SeqMax(gaps)

\* a result with a sender whose two reply gaps, the slower one first, have
\* a mean that is not an integer
C17_Witness ==
    /\ IsResolved
    /\ \E i \in 1..Len(outcome.result.senders) :
          LET gaps == GapsOf(outcome.result.senders[i].name)
          IN Len(gaps) = 2 /\ gaps[1] > gaps[2] /\ (gaps[1] + gaps[2]) % 2 = 1

\* every numeric field of a result is a number
NumericFieldsDefined(res) ==
    /\ res.totalMessages \in Nat
    /\ res.totalDays \in Nat
    /\ res.longestGapDays \in Nat
    /\ res.longestDayStreak \in Nat
    /\ res.activeDaysPct \in Nat
    /\ res.busiestDay.count \in Nat
    /\ \A h \in DOMAIN res.hourlyStats : res.hourlyStats[h] \in Nat
    /\ \A d \in DOMAIN res.timelineStats : res.timelineStats[d] \in Nat
    /\ \A i \in 1..Len(res.senders) :
          LET s == res.senders[i]
          IN /\ s.count \in Nat
             /\ s.reelCount \in Nat
             /\ s.attachmentCount \in Nat
             /\ s.avgMessageLength \in Nat
             /\ s.avgReplyTimeMinutes \in Nat
             /\ s.fastestReplySeconds \in Nat
             /\ s.slowestReplyMinutes \in Nat
             /\ s.longestStreakMessages \in Nat
             /\ s.initiatedConversations \in Nat
             /\ s.lateNightMessages \in Nat
             /\ s.morningMessages \in Nat
             /\ s.afternoonMessages \in Nat
             /\ s.eveningMessages \in Nat

\* the call has got past the empty check and has settled
SettledWithMessages == pc = "settled" /\ rawMessages # << >>

\* C18: whenever the strategies yield a non-empty message list (a single
\* message, one sender only and one instant only included), the parse
\* resolves and every numeric field of the result is a number.
C18_NonEmptyParses ==
    SettledWithMessages => (IsResolved /\ NumericFieldsDefined(outcome.result))

\* C18, for message lists without a sender name inherited from
\* Object.prototype
C18_NonEmptyParsesOwnNames ==
    (SettledWithMessages
        /\ \A i \in 1..Len(rawMessages) : rawMessages[i].sender \notin InheritedNames)
    => (IsResolved /\ NumericFieldsDefined(outcome.result))

\* the active day after d, for an active day d that is not the last
NextActiveDay(d) ==
    CHOOSE e \in ActiveDayNumbers :
        e > d /\ \A f \in ActiveDayNumbers : f > d => e <= f
\* the differences, in whole days, between adjacent active days
AdjacentGaps ==
    { NextActiveDay(d) - d : d \in { x \in ActiveDayNumbers : \E e \in ActiveDayNumbers : e > x } }

\* C19: longestGapDays is the greatest difference in whole days between
\* chronologically adjacent active days, and 0 when there is one active day.
C19_LongestGap ==
    IsResolved =>
        IF Cardinality(ActiveDayNumbers) = 1
        THEN outcome.result.longestGapDays = 0
        ELSE /\ outcome.result.longestGapDays \in AdjacentGaps
             /\ \A g \in AdjacentGaps : g <= outcome.result.longestGapDays

\* a result over three active days whose first gap is longer than the second
C19_Witness ==
    /\ IsResolved
    /\ Cardinality(ActiveDayNumbers) = 3
    /\ Cardinality(AdjacentGaps) = 2
    /\ LET first == CHOOSE d \in ActiveDayNumbers : \A e \in ActiveDayNumbers : d <= e
       IN NextActiveDay(first) - first = outcome.result.longestGapDays

\* the number of messages on the day with number d
MessagesOn(d) ==
    Cardinality({ i \in 1..Len(rawMessages) : rawMessages[i].timestamp \div MinutesPerDay = d })
\* the active days with the highest message count
BusiestDays ==
    { d \in ActiveDayNumbers : \A e \in ActiveDayNumbers : MessagesOn(e) <= MessagesOn(d) }

\* C20: busiestDay names a day with the highest message count, with that
\* count; of several days with the highest count it names the
\* chronologically earliest.
C20_BusiestDayEarliestOfTies ==
    IsResolved =>
        LET day == DaysFromCivil(outcome.result.busiestDay.date) IN
        /\ day \in BusiestDays
        /\ outcome.result.busiestDay.count = MessagesOn(day)
        /\ \A d \in BusiestDays : day <= d

\* a result in which several days share the highest count, the messages
\* of the earliest of them not being the first extracted
C20_Witness ==
    /\ IsResolved
    /\ Cardinality(BusiestDays) >= 2
    /\ \E d \in BusiestDays : Extracted[1].timestamp \div MinutesPerDay > d

\* the three errors C21 names: empty payload, no messages found, read failure
NamedErrors == { "Empty file content", FormatError, "Failed to read file" }

\* every field of a result is filled in from at least one message
FullyPopulated(res) ==
    /\ DOMAIN res = { "fileName", "totalMessages", "senders", "hourlyStats",
                      "timelineStats", "totalDays", "firstMessageDate",
                      "lastMessageDate", "longestGapDays", "longestDayStreak",
                      "activeDaysPct", "busiestDay", "busiestMonth", "metadata" }
    /\ res.totalMessages > 0
    /\ res.totalMessages = SumFun(res.hourlyStats)
    /\ res.totalMessages = SumFun(res.timelineStats)
    /\ res.totalDays > 0
    /\ res.firstMessageDate # << >>
    /\ res.lastMessageDate # << >>
    /\ res.longestDayStreak > 0
    /\ res.busiestDay.date # NoKey
    /\ res.busiestMonth # NoKey
    /\ res.metadata.detectedFormat # "Unknown"

\* the outcome of a settled call is one of those C21 allows
TerminalOutcome ==
    \/ outcome.kind = "resolved" /\ FullyPopulated(outcome.result)
    \/ /\ outcome.kind = "rejected"
       /\ outcome.error \in NamedErrors
       /\ outcome.error = "Empty file content" => ran = { }

\* a step leaves the call pending until it settles, settles it with one of
\* the allowed outcomes, and never changes the outcome of a settled call
OneOutcome ==
    /\ pc' \notin { "settled", "finished" } => outcome' = Pending
    /\ (pc # "settled" /\ pc' = "settled") => (outcome = Pending /\ TerminalOutcome')
    /\ (pc \in { "settled", "finished" } /\ pc' \in { "settled", "finished" })
          => outcome' = outcome

\* C21: every call settles once, either resolved with a fully populated
\* result or rejected with "Empty file content", "No messages found or
\* format unrecognized." or "Failed to read file"; the empty payload rejects
\* before a strategy has run; a settled outcome never changes.
C21_OneTerminalOutcome ==
    [][ OneOutcome ]_vars

\* C21, for files without a sender name inherited from Object.prototype,
\* parsed while Object.prototype.consecutiveCount is not a truthy number
C21_OneTerminalOutcomeOwnNames ==
    [][ (/\ \A i \in 1..Len(rawMessages') : rawMessages'[i].sender \notin InheritedNames
         /\ ~Truthy(protoConsecutiveCount))
            => OneOutcome ]_vars

\* C22: the outcome of a call on a file, but for metadata.parsedAt, is the
\* outcome of every earlier call on the same file, whatever files were
\* parsed before it or between the two calls.
C22_IndependentOfOtherCalls ==
    \A i \in 1..Len(past) :
        (pc = "settled" /\ past[i].file = file)
            => WithoutParsedAt(outcome) = WithoutParsedAt(past[i].outcome)

\* C22, as long as no call has written onto a value inherited from
\* Object.prototype
C22_IndependentOfOtherCallsOwnNames ==
    \A i \in 1..Len(past) :
        (pc = "settled" /\ past[i].file = file /\ globalWrites = { })
            => WithoutParsedAt(outcome) = WithoutParsedAt(past[i].outcome)

\* the senders of the messages the analysis loop has processed so far
ProcessedSenders == { rawMessages[i].sender : i \in 1..(idx - 1) }

\* the two relations C27 claims for the counters of an accumulator
StreakCountersOk(s) ==
    /\ s.maxConsecutive >= s.consecutiveCount
    /\ (previousMsg # << >> /\ s.name # previousMsg[1].sender) => s.consecutiveCount = 0

\* C27: between the iterations of the analysis loop, every sender of a
\* processed message has maxConsecutive >= consecutiveCount, and every
\* sender but the sender of the last processed message has
\* consecutiveCount = 0.
C27_StreakCounters ==
    pc = "analyze" =>
        \A n \in ProcessedSenders :
            n \in DOMAIN senderMap /\ StreakCountersOk(senderMap[n])

\* C27, for the senders that have an accumulator: all but those with a
\* name inherited from Object.prototype
C27_StreakCountersOwnNames ==
    pc = "analyze" =>
        /\ DOMAIN senderMap = ProcessedSenders \ InheritedNames
        /\ \A n \in DOMAIN senderMap : StreakCountersOk(senderMap[n])

(***************************************************************************)
(* The batch of handleFilesSelected.                                       *)
(***************************************************************************)
\* the outcomes of the parses of the batch so far, in file order
AllOutcomes == [ i \in 1..Len(past) |-> past[i].outcome ] \o << outcome >>
Successes == SelectSeq(AllOutcomes, Succeeded)
SuccessfulResults == [ i \in 1..Len(Successes) |-> Successes[i].result ]
TerminalStatuses == { "complete", "error" }

BatchOver ==
    /\ Len(filesProgress) = Len(AllOutcomes)
    /\ \A i \in 1..Len(filesProgress) :
          /\ filesProgress[i] \in TerminalStatuses
          /\ ~Succeeded(AllOutcomes[i]) => filesProgress[i] = "error"
    /\ IF Len(Successes) = 0
       THEN status = "error" /\ error # << >> /\ results = << >>
       ELSE status = "complete" /\ results = SuccessfulResults

\* C25: a file whose parse rejects or yields no message is marked 'error'
\* and every file of the batch is still processed; after the loop the status
\* is 'error', with a message, exactly when no file succeeded, and is
\* 'complete' otherwise, the successful results having been appended to
\* results in file order
C25_FailuresDoNotStopBatch ==
    /\ [](pc = "finished" => BatchOver)
    /\ [][pc = "settled" /\ pc' = "finished"
            => results' = results \o SuccessfulResults]_vars

\* a batch whose first file failed and whose second file succeeded
C25_Witness ==
    /\ pc = "finished"
    /\ Len(filesProgress) >= 2
    /\ filesProgress[1] = "error"
    /\ filesProgress[2] = "complete"
    /\ Len(results) = 1

ProcessingEntries == { i \in 1..Len(filesProgress) : filesProgress[i] = "processing" }

ProgressOk ==
    /\ Cardinality(ProcessingEntries) <= 1
    /\ \A i \in 1..Len(filesProgress) :
          /\ (i > 1 /\ filesProgress[i] # "pending")
                => filesProgress[i - 1] \in TerminalStatuses
          /\ filesProgress[i] = "complete"
                <=> /\ i <= Len(past) \/ pc = "finished"
                    /\ Succeeded(AllOutcomes[i])

ProgressStep ==
    \A i \in 1..Len(filesProgress) :
        i <= Len(filesProgress')
           => /\ filesProgress[i] = "pending"
                    => filesProgress'[i] \in { "pending", "processing" }
              /\ filesProgress[i] = "processing"
                    => filesProgress'[i] \in { "processing" } \cup TerminalStatuses
              /\ filesProgress[i] \in TerminalStatuses
                    => filesProgress'[i] = filesProgress[i]

\* C26: at most one entry is 'processing' at any moment, an entry goes from
\* pending to processing to complete or error and stays there, no file
\* starts before its predecessor is terminal, and an entry is 'complete'
\* exactly when its parse resolved with totalMessages > 0
C26_OneFileAtATime == []ProgressOk /\ [][ProgressStep]_vars

\* the second file is being processed after the first one failed
C26_Witness ==
    /\ Len(filesProgress) >= 2
    /\ filesProgress[1] = "error"
    /\ filesProgress[2] = "processing"
    /\ pc = "analyze"

(***************************************************************************)
(* The aggregation of the dashboard.                                       *)
(***************************************************************************)
Aggregated == stats # << >>
MergedStats == stats[1]

\* the objects of the results as the aggregation left them are the ones
\* handed in
InputsUntouched ==
    LET given == InputHeap(results)
    IN /\ \A r \in DOMAIN given.objs : heap.objs[r] = given.objs[r]
       /\ \A m \in DOMAIN given.maps : heap.maps[m] = given.maps[m]

\* C23: the aggregation of the dashboard leaves every result, its SenderStat
\* entries and their wordCounts and emojis maps as they were returned, for
\* any number of results and any overlap of sender names
C23_InputsNeverMutated ==
    /\ [](Aggregated => InputsUntouched)
    /\ [][pc = "finished" => results' = results]_vars

\* several results were merged and some sender appeared in more than one
C23_Witness ==
    /\ Aggregated
    /\ ~MergedStats.threw
    /\ Len(results) >= 2
    /\ Len(MergedStats.senders) < Len(SenderRefs(results, 1))

\* the SenderStat entries of one name in the results, in file order
RECURSIVE Occurrences(_, _, _)
Occurrences(rs, refs, name) ==
    IF refs = << >> THEN << >>
    ELSE LET s == rs[Head(refs)[1]].senders[Head(refs)[2]]
         IN (IF s.name = name THEN << s >> ELSE << >>)
                \o Occurrences(rs, Tail(refs), name)

PerFile(name) == Occurrences(results, SenderRefs(results, 1), name)
CountsOf(occ) == [ i \in 1..Len(occ) |-> occ[i].count ]

\* the mean of the per-file values, each weighted by the count of the file
WeightedMean(occ, values) ==
    [ n |-> SumSeq([ i \in 1..Len(occ) |-> occ[i].count * values[i] ]),
      d |-> SumSeq(CountsOf(occ)) ]

\* the value left by halving the sum with each further file in turn
RECURSIVE HalvedMean(_, _)
HalvedMean(acc, values) ==
    IF values = << >> THEN acc
    ELSE HalvedMean(MeanOfTwo(acc, Fraction(Head(values))), Tail(values))

SumsAndMaxOk(m, occ) ==
    /\ m.count = SumSeq(CountsOf(occ))
    /\ m.longestStreakMessages = SeqMax([ i \in 1..Len(occ) |-> occ[i].longestStreakMessages ])

MergedSeveral(m) == Len(PerFile(m.name)) >= 2

\* C24: a sender found in several results gets the sum of the counts, the
\* maximum of longestStreakMessages, and for avgMessageLength and
\* avgReplyTimeMinutes the mean of the per-file values weighted by the
\* sender's message count in each file
C24_WeightedAverages ==
    (Aggregated /\ ~MergedStats.threw) =>
        \A k \in 1..Len(MergedStats.senders) :
            LET m == MergedStats.senders[k]
                occ == PerFile(m.name)
            IN MergedSeveral(m) =>
                  /\ SumsAndMaxOk(m, occ)
                  /\ SameFraction(m.avgMessageLength,
                        WeightedMean(occ, [ i \in 1..Len(occ) |-> occ[i].avgMessageLength ]))
                  /\ SameFraction(m.avgReplyTimeMinutes,
                        WeightedMean(occ, [ i \in 1..Len(occ) |-> occ[i].avgReplyTimeMinutes ]))

\* the counts are summed and the streak is the maximum, and each average is
\* halved with the value of every further file, whatever the counts
C24_HalvedAverages ==
    (Aggregated /\ ~MergedStats.threw) =>
        \A k \in 1..Len(MergedStats.senders) :
            LET m == MergedStats.senders[k]
                occ == PerFile(m.name)
            IN MergedSeveral(m) =>
                  /\ SumsAndMaxOk(m, occ)
                  /\ SameFraction(m.avgMessageLength,
                        HalvedMean(Fraction(occ[1].avgMessageLength),
                                   [ i \in 1..(Len(occ) - 1) |-> occ[i + 1].avgMessageLength ]))
                  /\ SameFraction(m.avgReplyTimeMinutes,
                        HalvedMean(Fraction(occ[1].avgReplyTimeMinutes),
                                   [ i \in 1..(Len(occ) - 1) |-> occ[i + 1].avgReplyTimeMinutes ]))

============================================================================
